---- MODULE Spec2Model ----
(***************************************************************************)
(* Keithley 2612 control toolkit: the device controller                    *)
(* (keithley2612/controller.py) driving either the in-memory instrument    *)
(* emulator (SimulatedTransport) or a hardware session (VisaTransport),    *)
(* both in keithley2612/transport.py.                                      *)
(*                                                                         *)
(* Command and response texts are sequences of tokens: the text split at   *)
(* "." and around "=", with "=" kept as a token of its own.  Voltages and  *)
(* currents are whole numbers of a fixed unit; a number travels as the     *)
(* text ToString gives it and is parsed back from that text.  They are     *)
(* floats in the code: the result of a subtraction or an addition is       *)
(* rounded to the nearest number with MantissaBits significant bits, ties  *)
(* to the even mantissa, as IEEE 754 arithmetic rounds to 53 bits.         *)
(***************************************************************************)
EXTENDS Integers, Sequences, FiniteSets, TLC

VARIABLES
    transport,   \* the transport instance the controller was constructed with
    channel,     \* Keithley2612Controller._channel
    connected,   \* Keithley2612Controller._connected
    last,        \* the last operation: its name, outcome, and transport calls
    everReset,   \* channels that have been sent a reset (history)
    nops         \* operations invoked since construction (history)

vars == <<transport, channel, connected, last, everReset, nops>>

(***************************************************************************)
(* Bounds of the model.                                                    *)
(***************************************************************************)
MaxLevel == 1
MaxLimit == 2
MaxQueue == 1
MaxOps == 5
MaxRamp == 2
MaxFail == 2
MantissaBits == 3
MaxBacklog == 3

Levels == 0..MaxLevel
Limits == 1..MaxLimit
RampLevels == (0 - 1)..MaxRamp
Numbers == (0 - MaxRamp - 2)..(MaxRamp + MaxLevel + MaxLimit + MaxQueue + 2)

\* Optional[...]: None is the empty sequence, a value v is <<v>>
None == <<>>
Some(v) == <<v>>

(***************************************************************************)
(* Channel(str, Enum) and its alias.                                       *)
(***************************************************************************)
Channel == {"smua", "smub"}

\* an alias that ignores the member
aliasOfDefault(c) == "smua"

alias(c) == c

Upper(s) ==
    CASE s = "smua" -> "SMUA"
      [] s = "smub" -> "SMUB"
      [] OTHER -> s

Lower(s) ==
    CASE s = "ON" -> "on"
      [] s = "OFF" -> "off"
      [] OTHER -> s

(***************************************************************************)
(* Number formatting (f-string of a float) and parsing (float(), int()).   *)
(***************************************************************************)
FormatNumber(n) == ToString(n)

IsNumberText(s) == \E n \in Numbers : ToString(n) = s

ParseNumber(s) == CHOOSE n \in Numbers : ToString(n) = s

(***************************************************************************)
(* Token-sequence helpers standing for the str methods the code uses.      *)
(***************************************************************************)
EqIndex(cmd) ==
    IF \E i \in 1..Len(cmd) : cmd[i] = "="
    THEN CHOOSE i \in 1..Len(cmd) : cmd[i] = "=" /\ \A j \in 1..(i - 1) : cmd[j] # "="
    ELSE 0

HasEq(cmd) == EqIndex(cmd) # 0

\* command.split("=", maxsplit=1), stripped: the text before and after the first "="
Lhs(cmd) == SubSeq(cmd, 1, EqIndex(cmd) - 1)
Rhs(cmd) == SubSeq(cmd, EqIndex(cmd) + 1, Len(cmd))

\* text.split(".")[-1]
LastToken(toks) == IF Len(toks) = 0 THEN "" ELSE toks[Len(toks)]

\* command.split("=")[-1].strip().split(".")[-1]
LastAfterEq(cmd) == IF Len(cmd) = 0 \/ cmd[Len(cmd)] = "=" THEN "" ELSE cmd[Len(cmd)]

StartsWith(cmd, a, b) == Len(cmd) >= 2 /\ cmd[1] = a /\ cmd[2] = b

HasPair(cmd, a, b) == \E i \in 1..(Len(cmd) - 1) : cmd[i] = a /\ cmd[i + 1] = b

\* text.endswith("." + a + "." + b)
EndsWithPair(toks, a, b) ==
    Len(toks) >= 3 /\ toks[Len(toks) - 1] = a /\ toks[Len(toks)] = b

(***************************************************************************)
(* The wire vocabulary: the command texts the controller formats.          *)
(***************************************************************************)
CmdRst == <<"*RST">>
CmdReset(a) == <<a, "reset()">>
CmdSourceFunc(a) == <<a, "source", "func", "=", a, "OUTPUT_DCVOLTS">>
\* the autorange command without the `if config.autorange` branch
CmdAutorangeAlwaysOn(a, on) == <<a, "source", "autorangev", "=", a, "AUTORANGE_ON">>

CmdAutorange(a, on) ==
    <<a, "source", "autorangev", "=", a, IF on THEN "AUTORANGE_ON" ELSE "AUTORANGE_OFF">>
CmdLevel(a, v) == <<a, "source", "levelv", "=", FormatNumber(v)>>
CmdLimit(a, i) == <<a, "source", "limiti", "=", FormatNumber(i)>>
CmdOutput(a, on) ==
    <<a, "source", "output", "=", a, IF on THEN "OUTPUT_ON" ELSE "OUTPUT_OFF">>
CmdBeeperEnable(on) == <<"beeper", "enable", "=", "beeper", IF on THEN "ON" ELSE "OFF">>
CmdBeep(duration, frequency_hz) ==
    <<"beeper", "beep", "(", FormatNumber(duration), FormatNumber(frequency_hz), ")">>
CmdDisplayScreen(a) == <<"display", "screen", "=", "display", Upper(a)>>
CmdDisplayMeasure(a) ==
    <<"display", a, "measure", "func", "=", "display", "MEASURE_DCVOLTS">>

QueryIdn == <<"*IDN?">>
QueryLevel(a) == <<"print(", a, "source", "levelv", ")">>
QueryCompliance(a) == <<"print(", a, "source", "compliance", ")">>
QueryMeasureV(a) == <<"print(", a, "measure", "v()", ")">>
QueryErrorCount == <<"print(", "errorqueue", "count", ")">>
QueryErrorPop ==
    <<"local code, msg, severity, node =", "errorqueue", "next()",
      "if code then print(", "string", "format", "('%d|%s|%d|%d', code, msg, severity, node)",
      ") end">>

(***************************************************************************)
(* _ChannelState and the SimulatedTransport dataclass.                     *)
(***************************************************************************)
DefaultLimit == 1

ChannelStateDefault ==
    [func |-> "OUTPUT_DCVOLTS", autorange |-> TRUE, level_v |-> 0,
     limit_i |-> DefaultLimit, output_on |-> FALSE, compliance |-> FALSE,
     display_measure |-> "MEASURE_DCAMPS", measure_func |-> "MEASURE_DCAMPS",
     measure_autorange |-> TRUE]

Identity == "Keithley Instruments Inc., Model 2612, 1234567, FW-1.0"

SimulatedTransportInit ==
    [kind |-> "sim", is_open |-> FALSE,
     channels |-> [c \in Channel |-> ChannelStateDefault],
     beeper_enabled |-> FALSE, display_screen |-> "HOME", last_beep |-> <<>>,
     error_queue |-> <<>>]

\* outcome of a transport call: the error raised ("" for none), the transport
\* afterwards and the response text (a sequence of "|"-separated fields)
Ok(t) == [err |-> "", t |-> t, resp |-> <<>>]
Answer(t, resp) == [err |-> "", t |-> t, resp |-> resp]
Raise(t, e) == [err |-> e, t |-> t, resp |-> <<>>]

SetChannelField(t, c, f, v) ==
    [t EXCEPT !.channels = [t.channels EXCEPT ![c] = [t.channels[c] EXCEPT ![f] = v]]]

\* the attribute assignments of _process_command, `if "=" in command:`
ProcessAssignment(t, cmd) ==
    LET lhs == Lhs(cmd)
        rhs == Rhs(cmd)
    IN  IF Len(lhs) < 2 THEN Raise(t, "ValueError")
        ELSE LET chan == lhs[1]
                 attribute == SubSeq(lhs, 2, Len(lhs))
             IN  IF chan \notin DOMAIN t.channels THEN Raise(t, "UnsupportedCommand")
                 ELSE IF attribute = <<"source", "func">>
                      THEN Ok(SetChannelField(t, chan, "func", LastToken(rhs)))
                 ELSE IF attribute = <<"source", "autorangev">>
                      THEN Ok(SetChannelField(t, chan, "autorange", LastToken(rhs) = "AUTORANGE_ON"))
                 ELSE IF attribute = <<"source", "levelv">>
                      THEN IF Len(rhs) = 1 /\ IsNumberText(rhs[1])
                           THEN Ok(SetChannelField(t, chan, "level_v", ParseNumber(rhs[1])))
                           ELSE Raise(t, "ValueError")
                 ELSE IF attribute = <<"source", "limiti">>
                      THEN IF Len(rhs) = 1 /\ IsNumberText(rhs[1])
                           THEN Ok(SetChannelField(t, chan, "limit_i", ParseNumber(rhs[1])))
                           ELSE Raise(t, "ValueError")
                 ELSE IF attribute = <<"source", "output">>
                      THEN Ok(SetChannelField(t, chan, "output_on", LastToken(rhs) = "OUTPUT_ON"))
                 ELSE IF attribute = <<"measure", "func">>
                      THEN Ok(SetChannelField(t, chan, "measure_func", LastToken(rhs)))
                 ELSE IF attribute = <<"measure", "autorangev">>
                      THEN Ok(SetChannelField(t, chan, "measure_autorange",
                                              LastToken(rhs) = "AUTORANGE_ON"))
                 ELSE Raise(t, "UnsupportedCommand")

\* SimulatedTransport._process_command
ProcessCommand(t, cmd) ==
    IF cmd = <<>> THEN Ok(t)
    ELSE IF cmd = CmdRst
    THEN Ok([t EXCEPT !.channels = [c \in DOMAIN t.channels |-> ChannelStateDefault],
                      !.beeper_enabled = FALSE,
                      !.display_screen = "HOME",
                      !.last_beep = <<>>,
                      !.error_queue = <<>>])
    ELSE IF LastToken(cmd) = "reset()"
    THEN Ok([t EXCEPT !.channels =
                [c \in DOMAIN t.channels \cup {cmd[1]} |->
                    IF c = cmd[1] THEN ChannelStateDefault ELSE t.channels[c]]])
    ELSE IF StartsWith(cmd, "beeper", "enable")
    THEN Ok([t EXCEPT !.beeper_enabled = Lower(LastAfterEq(cmd)) \in {"1", "on", "true"}])
    ELSE IF StartsWith(cmd, "errorqueue", "clear") \/ StartsWith(cmd, "errorqueue", "clear()")
    THEN Ok([t EXCEPT !.error_queue = <<>>])
    ELSE IF StartsWith(cmd, "beeper", "beep")
    THEN Ok([t EXCEPT !.last_beep = cmd])
    ELSE IF StartsWith(cmd, "display", "screen")
    THEN Ok([t EXCEPT !.display_screen = LastAfterEq(cmd)])
    ELSE IF Len(cmd) >= 2 /\ cmd[1] = "display" /\ cmd[2] \in {"smua", "smub", "smux"}
            /\ HasPair(cmd, "measure", "func")
    THEN IF ~HasEq(cmd) THEN Raise(t, "ValueError")
         ELSE IF Lhs(cmd)[2] \notin DOMAIN t.channels THEN Raise(t, "KeyError")
         ELSE Ok(SetChannelField(t, Lhs(cmd)[2], "display_measure", LastToken(Rhs(cmd))))
    ELSE IF HasEq(cmd) THEN ProcessAssignment(t, cmd)
    ELSE Raise(t, "UnsupportedCommand")

\* an error-queue entry as the pop script prints it: '%d|%s|%d|%d'
FormatEntry(e) ==
    <<FormatNumber(e.code)>> \o e.message \o <<FormatNumber(e.severity), FormatNumber(e.node)>>

\* _evaluate_expression measuring no voltage while the output is off
EvaluateExpressionOutputGated(t, expr) ==
    IF EndsWithPair(expr, "source", "compliance")
    THEN IF expr[1] \notin DOMAIN t.channels THEN Raise(t, "KeyError")
         ELSE Answer(t, <<IF t.channels[expr[1]].compliance THEN "1" ELSE "0">>)
    ELSE IF EndsWithPair(expr, "measure", "v()")
    THEN IF expr[1] \notin DOMAIN t.channels THEN Raise(t, "KeyError")
         ELSE IF ~t.channels[expr[1]].output_on THEN Answer(t, <<"0.0">>)
         ELSE Answer(t, <<FormatNumber(t.channels[expr[1]].level_v)>>)
    ELSE IF EndsWithPair(expr, "measure", "i()") THEN Answer(t, <<"0.0">>)
    ELSE IF expr = <<"errorqueue", "count">>
    THEN Answer(t, <<ToString(Len(t.error_queue))>>)
    ELSE Raise(t, "UnsupportedCommand")

\* SimulatedTransport._evaluate_expression
EvaluateExpression(t, expr) ==
    IF EndsWithPair(expr, "source", "compliance")
    THEN IF expr[1] \notin DOMAIN t.channels THEN Raise(t, "KeyError")
         ELSE Answer(t, <<IF t.channels[expr[1]].compliance THEN "1" ELSE "0">>)
    ELSE IF EndsWithPair(expr, "measure", "v()")
    THEN IF expr[1] \notin DOMAIN t.channels THEN Raise(t, "KeyError")
         ELSE Answer(t, <<FormatNumber(t.channels[expr[1]].level_v)>>)
    ELSE IF EndsWithPair(expr, "measure", "i()") THEN Answer(t, <<"0.0">>)
    ELSE IF expr = <<"errorqueue", "count">>
    THEN Answer(t, <<ToString(Len(t.error_queue))>>)
    ELSE Raise(t, "UnsupportedCommand")

\* SimulatedTransport.open / close / write / query
SimOpen(t) == Ok([t EXCEPT !.is_open = TRUE])
SimClose(t) == Ok([t EXCEPT !.is_open = FALSE])

\* write whose *RST leaves the error queue as it is
SimWriteRstKeepsQueue(t, cmd) ==
    IF ~t.is_open THEN Raise(t, "TransportNotOpen")
    ELSE IF cmd = CmdRst
    THEN Ok([ProcessCommand(t, cmd).t EXCEPT !.error_queue = t.error_queue])
    ELSE ProcessCommand(t, cmd)

\* write whose <channel>.reset() resets the whole device
SimWriteResetsDevice(t, cmd) ==
    IF ~t.is_open THEN Raise(t, "TransportNotOpen")
    ELSE IF cmd # <<>> /\ LastToken(cmd) = "reset()" THEN ProcessCommand(t, CmdRst)
    ELSE ProcessCommand(t, cmd)

\* write that stores nothing of an assignment it refuses, but has switched
\* the channel's output off before it looks at the value
SimWriteCutsOutputFirst(t, cmd) ==
    IF ~t.is_open THEN Raise(t, "TransportNotOpen")
    ELSE LET r == ProcessCommand(t, cmd)
         IN  IF r.err = "ValueError" THEN Raise(SetChannelField(t, cmd[1], "output_on", FALSE), r.err)
             ELSE r

SimWrite(t, cmd) ==
    IF ~t.is_open THEN Raise(t, "TransportNotOpen") ELSE ProcessCommand(t, cmd)

SimQuery(t, cmd) ==
    IF ~t.is_open THEN Raise(t, "TransportNotOpen")
    ELSE IF cmd = QueryIdn THEN Answer(t, <<Identity>>)
    ELSE IF HasPair(cmd, "errorqueue", "next()")
    THEN IF t.error_queue # <<>>
         THEN LET e == Head(t.error_queue)
                  t2 == [t EXCEPT !.error_queue = Tail(t.error_queue)]
              IN  IF HasPair(cmd, "string", "format")
                  THEN Answer(t2, FormatEntry(e))
                  ELSE Answer(t2, <<FormatNumber(e.code)>>)
         ELSE Answer(t, <<>>)
    ELSE IF Len(cmd) >= 2 /\ cmd[1] = "print(" /\ cmd[Len(cmd)] = ")"
    THEN EvaluateExpression(t, SubSeq(cmd, 2, Len(cmd) - 1))
    ELSE Raise(t, "UnsupportedCommand")

(***************************************************************************)
(* VisaTransport: a session to a device outside the program.  What the     *)
(* device answers is the environment's choice: `answers` holds, per kind   *)
(* of query, the texts it will answer in order, and `fail_at` the number   *)
(* of the call (counted from the start of the operation) that raises.      *)
(***************************************************************************)
NoAnswers == [level |-> <<>>, compliance |-> <<>>, measure |-> <<>>, other |-> <<>>]

VisaTransportInit ==
    [kind |-> "visa", resource |-> FALSE, answers |-> NoAnswers, ncalls |-> 0, fail_at |-> 0]

QueryKind(cmd) ==
    IF Len(cmd) = 5 /\ cmd[1] = "print(" /\ cmd[3] = "source" /\ cmd[4] = "levelv"
    THEN "level"
    ELSE IF Len(cmd) = 5 /\ cmd[1] = "print(" /\ cmd[3] = "source" /\ cmd[4] = "compliance"
    THEN "compliance"
    ELSE IF Len(cmd) = 5 /\ cmd[1] = "print(" /\ cmd[3] = "measure" /\ cmd[4] = "v()"
    THEN "measure"
    ELSE "other"

\* VisaTransport.open: open_resource may raise, and then no session is held
VisaOpen(t) ==
    LET t2 == [t EXCEPT !.ncalls = @ + 1]
    IN  IF t2.ncalls = t.fail_at THEN Raise(t2, "TransportFailure")
        ELSE Ok([t2 EXCEPT !.resource = TRUE])

\* VisaTransport.close: the session's close may raise, and then it is kept
VisaClose(t) ==
    IF ~t.resource THEN Ok(t)
    ELSE LET t2 == [t EXCEPT !.ncalls = @ + 1]
         IN  IF t2.ncalls = t.fail_at THEN Raise(t2, "TransportFailure")
             ELSE Ok([t2 EXCEPT !.resource = FALSE])

VisaWrite(t, cmd) ==
    IF ~t.resource THEN Raise(t, "TransportNotOpen")
    ELSE LET t2 == [t EXCEPT !.ncalls = @ + 1]
         IN  IF t2.ncalls = t.fail_at THEN Raise(t2, "TransportFailure") ELSE Ok(t2)

VisaQuery(t, cmd) ==
    IF ~t.resource THEN Raise(t, "TransportNotOpen")
    ELSE LET t2 == [t EXCEPT !.ncalls = @ + 1]
             k == QueryKind(cmd)
         IN  IF t2.ncalls = t.fail_at THEN Raise(t2, "TransportFailure")
             ELSE IF t.answers[k] = <<>> THEN Answer(t2, <<>>)
             ELSE Answer([t2 EXCEPT !.answers[k] = Tail(@)], Head(t.answers[k]))

(***************************************************************************)
(* InstrumentTransport: the four calls the controller makes.               *)
(***************************************************************************)
TOpen(t) == IF t.kind = "sim" THEN SimOpen(t) ELSE VisaOpen(t)
TClose(t) == IF t.kind = "sim" THEN SimClose(t) ELSE VisaClose(t)
TWrite(t, cmd) == IF t.kind = "sim" THEN SimWrite(t, cmd) ELSE VisaWrite(t, cmd)
TQuery(t, cmd) == IF t.kind = "sim" THEN SimQuery(t, cmd) ELSE VisaQuery(t, cmd)

(***************************************************************************)
(* Running an operation: x carries the transport, the calls made so far,   *)
(* the exception in flight ("" for none), the last response and the value  *)
(* returned.                                                               *)
(***************************************************************************)
Start(t) == [t |-> t, calls |-> <<>>, err |-> "", resp |-> <<>>, ret |-> None]

Call(kind, cmd, err, resp) == [kind |-> kind, cmd |-> cmd, err |-> err, resp |-> resp]

Do(x, kind, cmd, r) ==
    [x EXCEPT !.t = r.t, !.calls = Append(@, Call(kind, cmd, r.err, r.resp)),
              !.err = r.err, !.resp = r.resp]

Note(x, kind, cmd) == [x EXCEPT !.calls = Append(@, Call(kind, cmd, "", <<>>))]

Return(x, v) == IF x.err # "" THEN x ELSE [x EXCEPT !.ret = Some(v)]

\* Keithley2612Controller._write
Write(x, conn, cmd) ==
    IF x.err # "" THEN x
    ELSE IF ~conn THEN [x EXCEPT !.err = "NotConnected"]
    ELSE Do(x, "write", cmd, TWrite(x.t, cmd))

\* _batch_write going on to the next command after a failed write
RECURSIVE BatchWriteKeepsGoing(_, _, _)
BatchWriteKeepsGoing(x, conn, commands) ==
    IF commands = <<>> THEN x
    ELSE LET w == Write([x EXCEPT !.err = ""], conn, Head(commands))
         IN  BatchWriteKeepsGoing([w EXCEPT !.err = IF x.err # "" THEN x.err ELSE w.err],
                                  conn, Tail(commands))

\* Keithley2612Controller._batch_write
RECURSIVE BatchWrite(_, _, _)
BatchWrite(x, conn, commands) ==
    IF commands = <<>> THEN x
    ELSE BatchWrite(Write(x, conn, Head(commands)), conn, Tail(commands))

\* self._transport.query(...)
Query(x, cmd) == IF x.err # "" THEN x ELSE Do(x, "query", cmd, TQuery(x.t, cmd))

\* float(text) and int(text) accept; float() also takes the emulator's "0.0"
IsFloatText(resp) == Len(resp) = 1 /\ (IsNumberText(resp[1]) \/ resp[1] = "0.0")
ParseFloat(resp) == IF resp[1] = "0.0" THEN 0 ELSE ParseNumber(resp[1])

\* float(self._transport.query(f"print({alias}.source.levelv)") or 0.0)
QueryLastLevel(x, a) ==
    LET q == Query(x, QueryLevel(a))
    IN  IF q.err # "" THEN q
        ELSE IF q.resp = <<>> THEN Return(q, 0)
        ELSE IF IsFloatText(q.resp) THEN Return(q, ParseFloat(q.resp))
        ELSE [q EXCEPT !.err = "ValueError"]

\* Keithley2612Controller.read_compliance
ReadComplianceOp(x, a) ==
    LET q == Query(x, QueryCompliance(a))
    IN  Return(q, q.resp \in {<<"1">>, <<"true">>, <<"True">>})

\* Keithley2612Controller.measure_voltage
MeasureVoltageOp(x, a) ==
    LET q == Query(x, QueryMeasureV(a))
    IN  IF q.err # "" THEN q
        ELSE IF IsFloatText(q.resp) THEN Return(q, ParseFloat(q.resp))
        ELSE [q EXCEPT !.err = "ProtocolError"]

\* _safe_measure_voltage letting the failure of the measurement through
SafeMeasureVoltageRaises(x, a) == MeasureVoltageOp(x, a)

\* Keithley2612Controller._safe_measure_voltage
SafeMeasureVoltage(x, a) ==
    IF x.err # "" THEN x
    ELSE LET m == MeasureVoltageOp(x, a)
         IN  IF m.err # "" THEN [m EXCEPT !.err = "", !.ret = None] ELSE m

\* configure_voltage_source with the limit written before the level
ConfigureCommandsLimitFirst(a, level_v, current_limit_a, autorange) ==
    <<CmdSourceFunc(a), CmdAutorange(a, autorange), CmdLimit(a, current_limit_a),
      CmdLevel(a, level_v)>>

\* Keithley2612Controller.configure_voltage_source
ConfigureCommands(a, level_v, current_limit_a, autorange) ==
    <<CmdSourceFunc(a), CmdAutorange(a, autorange), CmdLevel(a, level_v),
      CmdLimit(a, current_limit_a)>>

\* quick_set_source switching the output off before it changes the source
QuickSetCommandsOutputOff(a, level_v, current_limit_a) ==
    <<CmdOutput(a, FALSE)>>
    \o (IF level_v # None THEN <<CmdLevel(a, level_v[1])>> ELSE <<>>)
    \o (IF current_limit_a # None THEN <<CmdLimit(a, current_limit_a[1])>> ELSE <<>>)

\* Keithley2612Controller.quick_set_source
QuickSetCommands(a, level_v, current_limit_a) ==
    (IF level_v # None THEN <<CmdLevel(a, level_v[1])>> ELSE <<>>)
    \o (IF current_limit_a # None THEN <<CmdLimit(a, current_limit_a[1])>> ELSE <<>>)

\* quick_set_source reading compliance before it writes
QuickSetSourceOpReadsFirst(x, conn, a, level_v, current_limit_a) ==
    LET c == ReadComplianceOp(x, a)
        w == BatchWrite(c, conn, QuickSetCommands(a, level_v, current_limit_a))
    IN  IF w.err # "" THEN w ELSE [w EXCEPT !.ret = c.ret]

QuickSetSourceOp(x, conn, a, level_v, current_limit_a) ==
    ReadComplianceOp(BatchWrite(x, conn, QuickSetCommands(a, level_v, current_limit_a)), a)

Abs(n) == IF n < 0 THEN 0 - n ELSE n
Min(a, b) == IF a <= b THEN a ELSE b

\* the spacing of the floats around a magnitude n
RECURSIVE Ulp(_)
Ulp(n) == IF n < 2 ^ MantissaBits THEN 1 ELSE 2 * Ulp(n \div 2)

\* the float nearest to n: what a float subtraction or addition returns
Fl(n) ==
    LET u == Ulp(Abs(n))
        q == Abs(n) \div u
        r == Abs(n) % u
        m == IF 2 * r < u THEN q
             ELSE IF 2 * r > u THEN q + 1
             ELSE IF q % 2 = 0 THEN q ELSE q + 1
    IN  IF n < 0 THEN 0 - (m * u) ELSE m * u

\* progress(level, reading)
Progress(x, level, reading) ==
    Note(x, "progress",
         <<FormatNumber(level), IF reading = None THEN "None" ELSE FormatNumber(reading[1])>>)

\* time.sleep(dwell_s), under `if dwell_s:`
Dwell(x, dwell_s) == IF dwell_s # 0 THEN Note(x, "sleep", <<FormatNumber(dwell_s)>>) ELSE x

\* the loop with the limit passed to quick_set_source at every iteration
RECURSIVE RampLoopLimitEveryStep(_, _, _, _, _, _, _, _, _, _, _, _)
RampLoopLimitEveryStep(x, conn, a, target_v, step_v, dwell_s, current_limit_a, direction, level, compliance, i, steps) ==
    IF x.err # "" THEN x
    ELSE IF i = steps THEN Return(x, compliance)
    ELSE LET remaining == Fl(target_v - level)
             increment == direction * Min(step_v, Abs(remaining))
             lvl == Fl(level + increment)
             c == QuickSetSourceOp(x, conn, a, Some(lvl), current_limit_a)
         IN  IF c.err # "" THEN c
             ELSE LET m == SafeMeasureVoltage(c, a)
                      d == Dwell(Progress(m, lvl, m.ret), dwell_s)
                  IN  RampLoopLimitEveryStep(d, conn, a, target_v, step_v, dwell_s,
                                             current_limit_a, direction, lvl,
                                             c.ret[1] \/ compliance, i + 1, steps)

\* the loop returning the compliance read of its last step instead of the OR of all
RECURSIVE RampLoopLastStepOnly(_, _, _, _, _, _, _, _, _, _, _, _)
RampLoopLastStepOnly(x, conn, a, target_v, step_v, dwell_s, current_limit_a, direction, level, compliance, i, steps) ==
    IF x.err # "" THEN x
    ELSE IF i = steps THEN Return(x, compliance)
    ELSE LET remaining == Fl(target_v - level)
             increment == direction * Min(step_v, Abs(remaining))
             lvl == Fl(level + increment)
             c == QuickSetSourceOp(x, conn, a, Some(lvl),
                                   IF i = 0 THEN current_limit_a ELSE None)
         IN  IF c.err # "" THEN c
             ELSE LET m == SafeMeasureVoltage(c, a)
                      d == Dwell(Progress(m, lvl, m.ret), dwell_s)
                  IN  RampLoopLastStepOnly(d, conn, a, target_v, step_v, dwell_s,
                                           current_limit_a, direction, lvl, c.ret[1], i + 1, steps)

\* the loop going on to the next step after a level write that failed
RECURSIVE RampLoopPastFailedWrite(_, _, _, _, _, _, _, _, _, _, _, _)
RampLoopPastFailedWrite(x, conn, a, target_v, step_v, dwell_s, current_limit_a, direction, level, compliance, i, steps) ==
    IF i = steps THEN x
    ELSE LET remaining == Fl(target_v - level)
             increment == direction * Min(step_v, Abs(remaining))
             lvl == Fl(level + increment)
             c == QuickSetSourceOp([x EXCEPT !.err = ""], conn, a, Some(lvl),
                                   IF i = 0 THEN current_limit_a ELSE None)
             e == IF x.err # "" THEN x.err ELSE c.err
             m == SafeMeasureVoltage([c EXCEPT !.err = ""], a)
             d == Dwell(Progress(m, lvl, m.ret), dwell_s)
         IN  RampLoopPastFailedWrite([d EXCEPT !.err = e], conn, a, target_v, step_v, dwell_s,
                                     current_limit_a, direction, lvl, compliance, i + 1, steps)

\* the loop returning as soon as a step reads compliance as tripped
RECURSIVE RampLoopStopsOnTrip(_, _, _, _, _, _, _, _, _, _, _, _)
RampLoopStopsOnTrip(x, conn, a, target_v, step_v, dwell_s, current_limit_a, direction, level, compliance, i, steps) ==
    IF x.err # "" THEN x
    ELSE IF i = steps \/ compliance THEN Return(x, compliance)
    ELSE LET remaining == Fl(target_v - level)
             increment == direction * Min(step_v, Abs(remaining))
             lvl == Fl(level + increment)
             c == QuickSetSourceOp(x, conn, a, Some(lvl),
                                   IF i = 0 THEN current_limit_a ELSE None)
         IN  IF c.err # "" THEN c
             ELSE LET m == SafeMeasureVoltage(c, a)
                      d == Dwell(Progress(m, lvl, m.ret), dwell_s)
                  IN  RampLoopStopsOnTrip(d, conn, a, target_v, step_v, dwell_s, current_limit_a,
                                          direction, lvl, c.ret[1] \/ compliance, i + 1, steps)

\* the for loop of ramp_to_voltage, from iteration i on
RECURSIVE RampLoop(_, _, _, _, _, _, _, _, _, _, _, _)
RampLoop(x, conn, a, target_v, step_v, dwell_s, current_limit_a, direction, level, compliance, i, steps) ==
    IF x.err # "" THEN x
    ELSE IF i = steps THEN Return(x, compliance)
    ELSE LET remaining == Fl(target_v - level)
             increment == direction * Min(step_v, Abs(remaining))
             lvl == Fl(level + increment)
             c == QuickSetSourceOp(x, conn, a, Some(lvl),
                                   IF i = 0 THEN current_limit_a ELSE None)
         IN  IF c.err # "" THEN c
             ELSE LET m == SafeMeasureVoltage(c, a)
                      d == Dwell(Progress(m, lvl, m.ret), dwell_s)
                  IN  RampLoop(d, conn, a, target_v, step_v, dwell_s, current_limit_a,
                               direction, lvl, c.ret[1] \/ compliance, i + 1, steps)

\* ramp_to_voltage accepting every step and dwell
InvalidRampArgumentsNever(step_v, dwell_s) == FALSE

\* the two argument checks at the head of ramp_to_voltage
InvalidRampArguments(step_v, dwell_s) == step_v <= 0 \/ dwell_s < 0

\* Keithley2612Controller.ramp_to_voltage
RampToVoltageOp(x, conn, a, target_v, step_v, dwell_s, current_limit_a) ==
    IF x.err # "" THEN x
    ELSE IF InvalidRampArguments(step_v, dwell_s) THEN [x EXCEPT !.err = "InvalidArgument"]
    ELSE LET q == QueryLastLevel(x, a)
         IN  IF q.err # "" THEN q
             ELSE LET current_level == q.ret[1]
                      delta == Fl(target_v - current_level)
                  IN  IF Abs(delta) <= step_v
                      THEN LET c == QuickSetSourceOp(q, conn, a, Some(target_v), current_limit_a)
                           IN  IF c.err # "" THEN c
                               ELSE LET m == SafeMeasureVoltage(c, a)
                                    IN  Return(Progress(m, target_v, m.ret), c.ret[1])
                      ELSE LET steps == (Abs(delta) \div step_v)
                                        + (IF Abs(delta) % step_v # 0 THEN 1 ELSE 0)
                               direction == IF delta > 0 THEN 1 ELSE 0 - 1
                           IN  RampLoop(q, conn, a, target_v, step_v, dwell_s, current_limit_a,
                                        direction, current_level, FALSE, 0, steps)

\* ramp_to_zero taking only an exact zero as being at zero
WithinToleranceZeroOnly(level, tolerance_v) == level = 0

\* abs(current_level) <= tolerance_v
WithinTolerance(level, tolerance_v) == Abs(level) <= tolerance_v

\* ramp_to_zero switching the output off once it is done
RampToZeroOpCutsOutput(x, conn, a, step_v, dwell_s, tolerance_v, current_limit_a) ==
    LET q == QueryLastLevel(x, a)
    IN  IF q.err # "" THEN q
        ELSE IF WithinTolerance(q.ret[1], tolerance_v) THEN Return(q, FALSE)
        ELSE LET r == RampToVoltageOp(q, conn, a, 0, step_v, dwell_s, current_limit_a)
                 b == QueryLastLevel(r, a)
             IN  IF b.err # "" THEN b
                 ELSE IF ~WithinTolerance(b.ret[1], tolerance_v)
                 THEN Return(Write(QuickSetSourceOp(b, conn, a, Some(0), current_limit_a),
                                   conn, CmdOutput(a, FALSE)), r.ret[1])
                 ELSE Return(Write(b, conn, CmdOutput(a, FALSE)), r.ret[1])

\* Keithley2612Controller.ramp_to_zero
RampToZeroOp(x, conn, a, step_v, dwell_s, tolerance_v, current_limit_a) ==
    LET q == QueryLastLevel(x, a)
    IN  IF q.err # "" THEN q
        ELSE IF WithinTolerance(q.ret[1], tolerance_v) THEN Return(q, FALSE)
        ELSE LET r == RampToVoltageOp(q, conn, a, 0, step_v, dwell_s, current_limit_a)
                 b == QueryLastLevel(r, a)
             IN  IF b.err # "" THEN b
                 ELSE IF ~WithinTolerance(b.ret[1], tolerance_v)
                 THEN Return(QuickSetSourceOp(b, conn, a, Some(0), current_limit_a), r.ret[1])
                 ELSE Return(b, r.ret[1])

\* int(text), as drain_error_queue uses it
IsIntText(s) == IsNumberText(s)

\* one pop response parsed into entries (none when it is skipped)
ParseEntry(resp) ==
    IF resp = <<>> THEN <<>>
    ELSE IF Len(resp) < 4 THEN <<>>
    ELSE IF Len(resp) = 4 /\ IsIntText(resp[1]) /\ IsIntText(resp[3]) /\ IsIntText(resp[4])
    THEN <<[code |-> ParseNumber(resp[1]), message |-> <<resp[2]>>,
            severity |-> ParseNumber(resp[3]), node |-> ParseNumber(resp[4])]>>
    ELSE <<>>

\* the loop giving up at the first pop that answers nothing
RECURSIVE DrainLoopUntilEmpty(_, _, _)
DrainLoopUntilEmpty(x, entries, n) ==
    IF x.err # "" THEN x
    ELSE IF n = 0 THEN Return(x, entries)
    ELSE LET q == Query(x, QueryErrorPop)
         IN  IF q.err = "" /\ q.resp = <<>> THEN Return(q, entries)
             ELSE DrainLoopUntilEmpty(q, entries \o ParseEntry(q.resp), n - 1)

\* the loop raising at a pop response it cannot parse
RECURSIVE DrainLoopRaisesOnMalformed(_, _, _)
DrainLoopRaisesOnMalformed(x, entries, n) ==
    IF x.err # "" THEN x
    ELSE IF n = 0 THEN Return(x, entries)
    ELSE LET q == Query(x, QueryErrorPop)
         IN  IF q.err = "" /\ q.resp # <<>> /\ ParseEntry(q.resp) = <<>>
             THEN [q EXCEPT !.err = "ValueError"]
             ELSE DrainLoopRaisesOnMalformed(q, entries \o ParseEntry(q.resp), n - 1)

\* the for loop of drain_error_queue, n pops left
RECURSIVE DrainLoop(_, _, _)
DrainLoop(x, entries, n) ==
    IF x.err # "" THEN x
    ELSE IF n = 0 THEN Return(x, entries)
    ELSE LET q == Query(x, QueryErrorPop)
         IN  DrainLoop(q, entries \o ParseEntry(q.resp), n - 1)

\* Keithley2612Controller.drain_error_queue
DrainErrorQueueOp(x) ==
    LET q == Query(x, QueryErrorCount)
    IN  IF q.err # "" THEN [q EXCEPT !.err = "RuntimeError"]
        ELSE LET text == IF q.resp = <<>> THEN <<"0">> ELSE q.resp
                 count == IF Len(text) = 1 /\ IsIntText(text[1]) THEN ParseNumber(text[1]) ELSE 0
             IN  IF count <= 0 THEN Return(q, <<>>) ELSE DrainLoop(q, <<>>, count)

(***************************************************************************)
(* The state machine.  Every public operation of the controller is one     *)
(* action; `last` records what the operation did.                          *)
(***************************************************************************)
NoOp == [op |-> "init", err |-> "", ret |-> None, calls |-> <<>>]

\* channels a successfully delivered call sequence has reset
ResetTargets(calls) ==
    {c \in Channel :
        \E i \in 1..Len(calls) :
            /\ calls[i].kind = "write" /\ calls[i].err = ""
            /\ (calls[i].cmd = CmdRst \/ calls[i].cmd = CmdReset(c))}

\* what the environment's script leaves behind is no state of the program
Settle(t) ==
    IF t.kind = "visa" THEN [t EXCEPT !.answers = NoAnswers, !.ncalls = 0, !.fail_at = 0] ELSE t

Finish(op, x) ==
    \E r \in {x} :
        /\ transport' = Settle(r.t)
        /\ last' = [op |-> op, err |-> r.err, ret |-> r.ret, calls |-> r.calls]
        /\ everReset' = everReset \cup ResetTargets(r.calls)

InitSim ==
    /\ transport = SimulatedTransportInit
    /\ channel = "smua"
    /\ connected = FALSE
    /\ last = NoOp
    /\ everReset = {}
    /\ nops = 0

\* connect() without the `if self._connected: return` guard
ConnectUnguarded ==
    LET x == Do(Start(transport), "open", <<>>, TOpen(transport))
    IN  /\ Finish("connect", x)
        /\ connected' = (x.err = "")
        /\ UNCHANGED channel

\* Keithley2612Controller.connect
\* connect raising its flag before it opens the transport
ConnectFlagsFirst ==
    IF connected
    THEN Finish("connect", Start(transport)) /\ UNCHANGED <<channel, connected>>
    ELSE LET x == Do(Start(transport), "open", <<>>, TOpen(transport))
         IN  /\ Finish("connect", x)
             /\ connected' = TRUE
             /\ UNCHANGED channel

Connect ==
    IF connected
    THEN Finish("connect", Start(transport)) /\ UNCHANGED <<channel, connected>>
    ELSE LET x == Do(Start(transport), "open", <<>>, TOpen(transport))
         IN  /\ Finish("connect", x)
             /\ connected' = (x.err = "")
             /\ UNCHANGED channel

\* Keithley2612Controller.disconnect
Disconnect ==
    IF ~connected
    THEN Finish("disconnect", Start(transport)) /\ UNCHANGED <<channel, connected>>
    ELSE LET x == Do(Start(transport), "close", <<>>, TClose(transport))
         IN  /\ Finish("disconnect", x)
             /\ connected' = (x.err # "")
             /\ UNCHANGED channel

\* Keithley2612Controller.identify
Identify ==
    /\ Finish("identify", LET q == Query(Start(transport), QueryIdn) IN Return(q, q.resp))
    /\ UNCHANGED <<channel, connected>>

\* Keithley2612Controller.reset
\* reset with the channel reset sent before the full reset
ResetChannelFirst ==
    /\ Finish("reset", Write(Write(Start(transport), connected, CmdReset(alias(channel))), connected,
                    CmdRst))
    /\ UNCHANGED <<channel, connected>>

Reset ==
    /\ Finish("reset", Write(Write(Start(transport), connected, CmdRst), connected,
                    CmdReset(alias(channel))))
    /\ UNCHANGED <<channel, connected>>

\* select_channel without the `if channel == self._channel: return` guard
SelectChannelAlwaysResets(c) ==
    /\ channel' = c
    /\ Finish("select_channel", Write(Start(transport), connected, CmdReset(alias(c))))
    /\ UNCHANGED connected

\* Keithley2612Controller.select_channel
SelectChannel(c) ==
    /\ IF c = channel
       THEN Finish("select_channel", Start(transport)) /\ UNCHANGED channel
       ELSE /\ channel' = c
            /\ Finish("select_channel", Write(Start(transport), connected, CmdReset(alias(c))))
    /\ UNCHANGED connected

\* Keithley2612Controller.configure_voltage_source
ConfigureVoltageSource(level_v, current_limit_a, autorange) ==
    /\ Finish("configure_voltage_source", BatchWrite(Start(transport), connected,
                         ConfigureCommands(alias(channel), level_v, current_limit_a, autorange)))
    /\ UNCHANGED <<channel, connected>>

\* Keithley2612Controller.set_voltage
SetVoltage(level_v) ==
    /\ Finish("set_voltage", Write(Start(transport), connected, CmdLevel(alias(channel), level_v)))
    /\ UNCHANGED <<channel, connected>>

\* Keithley2612Controller.set_current_limit
SetCurrentLimit(current_limit_a) ==
    /\ Finish("set_current_limit", Write(Start(transport), connected, CmdLimit(alias(channel), current_limit_a)))
    /\ UNCHANGED <<channel, connected>>

\* Keithley2612Controller.quick_set_source
QuickSetSource(level_v, current_limit_a) ==
    /\ Finish("quick_set_source", QuickSetSourceOp(Start(transport), connected, alias(channel), level_v,
                               current_limit_a))
    /\ UNCHANGED <<channel, connected>>

\* Keithley2612Controller.enable_output
EnableOutput(enabled) ==
    /\ Finish("enable_output", Write(Start(transport), connected, CmdOutput(alias(channel), enabled)))
    /\ UNCHANGED <<channel, connected>>

\* Keithley2612Controller.read_compliance
ReadCompliance ==
    /\ Finish("read_compliance", ReadComplianceOp(Start(transport), alias(channel)))
    /\ UNCHANGED <<channel, connected>>

\* Keithley2612Controller.measure_voltage
MeasureVoltage ==
    /\ Finish("measure_voltage", MeasureVoltageOp(Start(transport), alias(channel)))
    /\ UNCHANGED <<channel, connected>>

\* Keithley2612Controller.ramp_to_voltage, on the transport as it is
RampToVoltage(target_v, step_v, dwell_s, current_limit_a) ==
    /\ Finish("ramp_to_voltage", RampToVoltageOp(Start(transport), connected, alias(channel), target_v, step_v,
                              dwell_s, current_limit_a))
    /\ UNCHANGED <<channel, connected>>

\* Keithley2612Controller.ramp_to_zero, on the transport as it is
RampToZero(step_v, dwell_s, tolerance_v, current_limit_a) ==
    /\ Finish("ramp_to_zero", RampToZeroOp(Start(transport), connected, alias(channel), step_v, dwell_s,
                           tolerance_v, current_limit_a))
    /\ UNCHANGED <<channel, connected>>

\* Keithley2612Controller.drain_error_queue
DrainErrorQueue ==
    /\ Finish("drain_error_queue", DrainErrorQueueOp(Start(transport)))
    /\ UNCHANGED <<channel, connected>>

\* Keithley2612Controller.set_beeper_enabled
SetBeeperEnabled(enabled) ==
    /\ Finish("set_beeper_enabled", Write(Start(transport), connected, CmdBeeperEnable(enabled)))
    /\ UNCHANGED <<channel, connected>>

\* Keithley2612Controller.beep
Beep(duration, frequency_hz) ==
    /\ Finish("beep", Write(Start(transport), connected, CmdBeep(duration, frequency_hz)))
    /\ UNCHANGED <<channel, connected>>

\* Keithley2612Controller.configure_display_for_voltage
ConfigureDisplayForVoltage ==
    /\ Finish("configure_display_for_voltage", BatchWrite(Start(transport), connected,
                         <<CmdDisplayScreen(alias(channel)), CmdDisplayMeasure(alias(channel))>>))
    /\ UNCHANGED <<channel, connected>>

\* SimulatedTransport.set_compliance (test instrumentation)
SetCompliance(c, compliance) ==
    /\ transport' = SetChannelField(transport, c, "compliance", compliance)
    /\ last' = [NoOp EXCEPT !.op = "set_compliance"]
    /\ UNCHANGED <<channel, connected, everReset>>

\* SimulatedTransport.push_error (test instrumentation)
PushError(entry) ==
    /\ Len(transport.error_queue) < MaxQueue
    /\ transport' = [transport EXCEPT !.error_queue = Append(@, entry)]
    /\ last' = [NoOp EXCEPT !.op = "push_error"]
    /\ UNCHANGED <<channel, connected, everReset>>

\* entries a test may push; a message is the sequence of its "|"-separated pieces
Entries ==
    {[code |-> 0 - 2, message |-> <<"Runtime error">>, severity |-> 1, node |-> 0],
     [code |-> 1, message |-> <<"a", "b">>, severity |-> 1, node |-> 0]}

\* steps and dwells a caller may pass, the refused ones included
StepArgs == (0 - 1)..1
DwellArgs == (0 - 1)..0

OptLevels == {None} \cup {Some(v) : v \in Levels}
OptLimits == {None} \cup {Some(i) : i \in Limits}

(***************************************************************************)
(* Sourcing session on the emulator's default channel: the connection and  *)
(* every operation on the source of the active channel.                    *)
(***************************************************************************)
\* operations of this specification are not counted
Unmetered == UNCHANGED nops

Next ==
    \/ Unmetered /\ Connect
    \/ Unmetered /\ Disconnect
    \/ Unmetered /\ Reset
    \/ Unmetered /\ \E v \in Levels, i \in Limits, ar \in BOOLEAN : ConfigureVoltageSource(v, i, ar)
    \/ Unmetered /\ \E v \in Levels : SetVoltage(v)
    \/ Unmetered /\ \E i \in Limits : SetCurrentLimit(i)
    \/ Unmetered /\ \E v \in OptLevels, i \in OptLimits : QuickSetSource(v, i)
    \/ Unmetered /\ \E b \in BOOLEAN : EnableOutput(b)
    \/ Unmetered /\ ReadCompliance
    \/ Unmetered /\ MeasureVoltage
    \/ Unmetered /\ \E v \in Levels, st \in StepArgs, d \in DwellArgs, i \in OptLimits :
                       RampToVoltage(v, st, d, i)
    \/ Unmetered /\ \E i \in OptLimits : RampToZero(1, 0, 0, i)
    \/ Unmetered /\ \E c \in Channel, b \in BOOLEAN : SetCompliance(c, b)

Spec == InitSim /\ [][Next]_vars

(***************************************************************************)
(* Any session of at most MaxOps operations on the emulator: every public  *)
(* operation of the controller on either channel, and the emulator's test  *)
(* instrumentation.                                                        *)
(***************************************************************************)
\* the caller takes the outcome of the operation it invoked
Returned ==
    /\ last.op \notin {"init", "device"}
    /\ last' = NoOp
    /\ UNCHANGED <<transport, channel, connected, everReset, nops>>

\* an operation is invoked once the caller holds no outcome, MaxOps times at most
Invoke ==
    /\ last.op = "init"
    /\ nops < MaxOps
    /\ nops' = nops + 1

NextSession ==
    \/ Returned
    \/ Invoke /\ Connect
    \/ Invoke /\ Disconnect
    \/ Invoke /\ Identify
    \/ Invoke /\ Reset
    \/ Invoke /\ \E c \in Channel : SelectChannel(c)
    \/ Invoke /\ \E v \in Levels, i \in Limits, ar \in BOOLEAN : ConfigureVoltageSource(v, i, ar)
    \/ Invoke /\ \E v \in Levels : SetVoltage(v)
    \/ Invoke /\ \E i \in Limits : SetCurrentLimit(i)
    \/ Invoke /\ \E v \in OptLevels, i \in OptLimits : QuickSetSource(v, i)
    \/ Invoke /\ \E b \in BOOLEAN : EnableOutput(b)
    \/ Invoke /\ ReadCompliance
    \/ Invoke /\ MeasureVoltage
    \/ Invoke /\ \E v \in Levels, i \in OptLimits : RampToVoltage(v, 1, 0, i)
    \/ Invoke /\ \E i \in OptLimits : RampToZero(1, 0, 0, i)
    \/ Invoke /\ DrainErrorQueue
    \/ Invoke /\ \E b \in BOOLEAN : SetBeeperEnabled(b)
    \/ Invoke /\ Beep(1, 2)
    \/ Invoke /\ ConfigureDisplayForVoltage
    \/ Invoke /\ \E c \in Channel, b \in BOOLEAN : SetCompliance(c, b)
    \/ Invoke /\ \E e \in Entries : PushError(e)

SpecSession == InitSim /\ [][NextSession]_vars

(***************************************************************************)
(* Session on a hardware transport.  Before an operation the device may    *)
(* settle what it will answer to the operation's queries and which of its  *)
(* calls will fail.                                                        *)
(***************************************************************************)
InitDevice ==
    /\ transport = VisaTransportInit
    /\ channel = "smua"
    /\ connected = FALSE
    /\ last = NoOp
    /\ everReset = {}
    /\ nops = 0

LevelAnswers == {<<>>} \cup {<< <<FormatNumber(l)>> >> : l \in RampLevels}
ComplianceAnswers == {<<>>, << <<"1">> >>, << <<"0">>, <<"1">> >>, << <<"1">>, <<"0">> >>}
MeasureAnswers == {<<>>, << <<"0">> >>}

DeviceScript(level, compliance, measure, fail_at) ==
    /\ transport.kind = "visa" /\ transport.resource
    /\ transport.answers = NoAnswers /\ transport.fail_at = 0
    /\ transport' = [transport EXCEPT
                        !.answers = [level |-> level, compliance |-> compliance,
                                     measure |-> measure, other |-> <<>>],
                        !.fail_at = fail_at]
    /\ last' = [NoOp EXCEPT !.op = "device"]
    /\ UNCHANGED <<channel, connected, everReset, nops>>

\* what the device may answer to the error-count query and to the pops after it
CountAnswers ==
    {<<>>, <<"x">>} \cup {<<FormatNumber(n)>> : n \in (0 - 1)..(MaxQueue + 1)}
PopAnswers ==
    {<<>>, <<"junk">>, <<"x", "m", "1", "0">>, <<"1", "m", "x", "0">>}
    \cup {FormatEntry(e) : e \in Entries}
PopScripts == UNION {[1..n -> PopAnswers] : n \in 0..(MaxQueue + 1)}

\* the number of pops drain_error_queue sends after a count answer
Announced(count) ==
    IF Len(count) = 1 /\ IsNumberText(count[1]) /\ ParseNumber(count[1]) > 0
    THEN ParseNumber(count[1]) ELSE 0

\* a pop the drain never sends is never answered: the script holds one answer
\* (possibly the empty one) for each pop the count announces
DeviceScriptErrors(count, pops, fail_at) ==
    /\ transport.kind = "visa" /\ transport.resource
    /\ transport.answers = NoAnswers /\ transport.fail_at = 0
    /\ Len(pops) = Announced(count)
    /\ transport' = [transport EXCEPT
                        !.answers = [NoAnswers EXCEPT !.other = <<count>> \o pops],
                        !.fail_at = fail_at]
    /\ last' = [NoOp EXCEPT !.op = "device"]
    /\ UNCHANGED <<channel, connected, everReset, nops>>

\* a failure of one of the later calls of an operation, the device answering
\* nothing in particular before it
LaterFailures == (MaxFail + 1)..(2 * MaxFail + 1)

DeviceScriptFailure(fail_at) ==
    /\ transport.kind = "visa" /\ transport.resource
    /\ transport.answers = NoAnswers /\ transport.fail_at = 0
    /\ transport' = [transport EXCEPT !.fail_at = fail_at]
    /\ last' = [NoOp EXCEPT !.op = "device"]
    /\ UNCHANGED <<channel, connected, everReset, nops>>

\* a device at a level when rampToZero starts (its two level queries before
\* the first write) and at the level `back` when the level is read back: zero
\* when the device followed the writes, the old level when it did not
DeviceScriptLevels(level, back) ==
    /\ transport.kind = "visa" /\ transport.resource
    /\ transport.answers = NoAnswers /\ transport.fail_at = 0
    /\ transport' = [transport EXCEPT
                        !.answers = [NoAnswers EXCEPT
                                        !.level = << <<FormatNumber(level)>>,
                                                     <<FormatNumber(level)>>,
                                                     <<FormatNumber(back)>> >>]]
    /\ last' = [NoOp EXCEPT !.op = "device"]
    /\ UNCHANGED <<channel, connected, everReset, nops>>

Steps == 1..2
Dwells == 0..1

\* a target far enough from the start for the steps' sums to need rounding
CoarseLevels == {2 ^ (MantissaBits + 1)}
CoarseSteps == {2 ^ (MantissaBits - 2) + 1}

\* the targets and steps rampToVoltage is called with
RampArgs == (RampLevels \X Steps) \cup (CoarseLevels \X CoarseSteps)
Tolerances == 0..1

\* an operation is invoked once the caller holds no outcome
Idle ==
    /\ last.op \in {"init", "device"}
    /\ UNCHANGED nops

NextDevice ==
    \/ Returned
    \/ Idle /\ Connect
    \/ Idle /\ Disconnect
    \/ Idle /\ \E v \in OptLevels, i \in OptLimits : QuickSetSource(v, i)
    \/ Idle /\ \E r \in RampArgs, d \in Dwells, i \in OptLimits :
                  RampToVoltage(r[1], r[2], d, i)
    \/ Idle /\ \E st \in Steps, d \in Dwells, tol \in Tolerances, i \in OptLimits :
                  RampToZero(st, d, tol, i)
    \/ Idle /\ DrainErrorQueue
    \/ Idle /\ \E v \in Levels, i \in Limits, ar \in BOOLEAN : ConfigureVoltageSource(v, i, ar)
    \/ last.op = "init" /\ \E k \in LaterFailures : DeviceScriptFailure(k)
    \/ last.op = "init" /\ \E l \in RampLevels \ {0} : \E b \in {0, l} : DeviceScriptLevels(l, b)
    \/ last.op = "init" /\ \E l \in LevelAnswers, c \in ComplianceAnswers,
                               m \in MeasureAnswers, k \in 0..MaxFail :
                               DeviceScript(l, c, m, k)
    \/ last.op = "init" /\ \E n \in CountAnswers, p \in PopScripts, k \in 0..MaxFail :
                               DeviceScriptErrors(n, p, k)

SpecDevice == InitDevice /\ [][NextDevice]_vars

(***************************************************************************)
(* The emulator used on its own: a client opens it, closes it and submits  *)
(* command and query texts of its choosing, the controller's vocabulary    *)
(* and texts outside it.                                                   *)
(***************************************************************************)
\* SimulatedTransport.open
TransportOpen ==
    /\ Finish("transport.open", Do(Start(transport), "open", <<>>, SimOpen(transport)))
    /\ UNCHANGED <<channel, connected, nops>>

\* SimulatedTransport.close
TransportClose ==
    /\ Finish("transport.close", Do(Start(transport), "close", <<>>, SimClose(transport)))
    /\ UNCHANGED <<channel, connected, nops>>

\* SimulatedTransport.write
TransportWrite(command) ==
    /\ Finish("transport.write", Do(Start(transport), "write", command, SimWrite(transport, command)))
    /\ UNCHANGED <<channel, connected, nops>>

\* SimulatedTransport.query
TransportQuery(command) ==
    /\ Finish("transport.query", Do(Start(transport), "query", command, SimQuery(transport, command)))
    /\ UNCHANGED <<channel, connected, nops>>

CmdErrorQueueClear == <<"errorqueue", "clear()">>

\* texts outside the emulator's vocabulary: the empty command, a reset and an
\* assignment naming no channel, an unknown attribute, an unknown word
UnknownWrites ==
    {<<>>, <<"foo", "reset()">>, <<"foo", "source", "levelv", "=", FormatNumber(1)>>,
     <<"smua", "source", "bogus", "=", FormatNumber(1)>>, <<"bogus">>}

UnknownQueries ==
    {<<"bogus?">>, <<"print(", "bogus", ")">>, <<"print(", "foo", "source", "compliance", ")">>}

\* texts of the vocabulary the emulator cannot carry out: a level and a limit
\* that are no number, a display function for a channel it does not hold
MalformedWrites ==
    {<<"smua", "source", "levelv", "=", "abc">>, <<"smua", "source", "limiti", "=", "abc">>,
     <<"display", "smux", "measure", "func", "=", "display", "MEASURE_DCVOLTS">>}

RawWrites ==
    {CmdRst, CmdReset("smua"), CmdLevel("smua", MaxLevel), CmdOutput("smua", TRUE),
     CmdBeeperEnable(TRUE), CmdDisplayScreen("smub"), CmdErrorQueueClear, CmdBeep(1, 2)}
    \cup UnknownWrites \cup MalformedWrites

RawQueries ==
    {QueryIdn, QueryCompliance("smua"), QueryMeasureV("smua"), QueryErrorCount, QueryErrorPop}
    \cup UnknownQueries

NextEmulator ==
    \/ TransportOpen
    \/ TransportClose
    \/ \E command \in RawWrites : TransportWrite(command)
    \/ \E command \in RawQueries : TransportQuery(command)
    \/ Unmetered /\ \E e \in Entries : PushError(e)
    \/ Unmetered /\ SetCompliance("smub", TRUE)

SpecEmulator == InitSim /\ [][NextEmulator]_vars

(***************************************************************************)
(* Reading the record of an operation.                                     *)
(***************************************************************************)
IsSourceWrite(call, attribute) ==
    /\ call.kind = "write"
    /\ Len(call.cmd) >= 4
    /\ call.cmd[2] = "source" /\ call.cmd[3] = attribute /\ call.cmd[4] = "="

IsLevelWrite(call) == IsSourceWrite(call, "levelv")
IsLimitWrite(call) == IsSourceWrite(call, "limiti")

IsDisplayMeasureWrite(call) ==
    /\ call.kind = "write"
    /\ Len(call.cmd) >= 5
    /\ call.cmd[1] = "display" /\ call.cmd[3] = "measure" /\ call.cmd[4] = "func"

IsResetWrite(call) ==
    call.kind = "write" /\ (call.cmd = <<"*RST">> \/ LastToken(call.cmd) = "reset()")

\* the channel a write addresses, "" when it addresses none
AddressedChannel(call) ==
    IF call.kind # "write" \/ Len(call.cmd) < 2 THEN ""
    ELSE IF call.cmd[1] \in Channel THEN call.cmd[1]
    ELSE IF IsDisplayMeasureWrite(call) /\ call.cmd[2] \in Channel THEN call.cmd[2]
    ELSE ""

TouchesTransport(call) == call.kind \in {"write", "query", "open", "close"}

MutatingOps ==
    {"reset", "select_channel", "configure_voltage_source", "set_voltage",
     "set_current_limit", "quick_set_source", "enable_output", "ramp_to_voltage",
     "ramp_to_zero", "drain_error_queue", "set_beeper_enabled", "beep",
     "configure_display_for_voltage"}

(***************************************************************************)
(* C1: every mutating operation invoked while the controller is not        *)
(* connected (a selectChannel only when it names another channel) fails    *)
(* with NotConnected and makes no call on the transport.                   *)
(***************************************************************************)
C1_NotConnectedFailsFast ==
    [][(/\ ~connected
        /\ last'.op \in MutatingOps
        /\ (last'.op = "select_channel" => channel' # channel))
       => (/\ last'.err = "NotConnected"
           /\ \A i \in 1..Len(last'.calls) : ~TouchesTransport(last'.calls[i]))]_vars

(***************************************************************************)
(* C2: no channel-addressed write other than a reset is sent to a channel  *)
(* that has not been reset before, by the global reset or by its own.      *)
(***************************************************************************)
C2_ResetBeforeUse ==
    [][\A i \in 1..Len(last'.calls) :
          (AddressedChannel(last'.calls[i]) # "" /\ ~IsResetWrite(last'.calls[i]))
          => AddressedChannel(last'.calls[i])
                \in everReset \cup ResetTargets(SubSeq(last'.calls, 1, i - 1))]_vars

(***************************************************************************)
(* C3: no write or query a controller operation sends through the open     *)
(* emulator is answered with UnsupportedCommand.                           *)
(***************************************************************************)
C3_VocabularyAccepted ==
    \A i \in 1..Len(last.calls) : last.calls[i].err # "UnsupportedCommand"

(***************************************************************************)
(* C4: connect() opens the transport exactly once when disconnected and    *)
(* disconnect() closes it exactly once when connected; in the target state *)
(* they make no transport call and change no state; no other operation     *)
(* opens or closes the transport or changes the connected flag.            *)
(***************************************************************************)
C4_ConnectIdempotent ==
    [][/\ last'.op = "connect" =>
            IF connected
            THEN /\ last'.calls = <<>>
                 /\ <<transport', channel', connected'>> = <<transport, channel, connected>>
            ELSE /\ Len(last'.calls) = 1 /\ last'.calls[1].kind = "open"
                 /\ connected' /\ transport'.is_open
       /\ last'.op = "disconnect" =>
            IF ~connected
            THEN /\ last'.calls = <<>>
                 /\ <<transport', channel', connected'>> = <<transport, channel, connected>>
            ELSE /\ Len(last'.calls) = 1 /\ last'.calls[1].kind = "close"
                 /\ ~connected' /\ ~transport'.is_open
       /\ last'.op \notin {"connect", "disconnect"} =>
            /\ connected' = connected
            /\ \A i \in 1..Len(last'.calls) : last'.calls[i].kind \notin {"open", "close"}]_vars

C4_Witness ==
    /\ last.op = "disconnect" /\ Len(last.calls) = 1 /\ last.calls[1].kind = "close"
    /\ ~connected /\ ~transport.is_open

(***************************************************************************)
(* C5: configureVoltageSource on a connected controller sends exactly four *)
(* writes to the active channel: source function DC-voltage, autorange     *)
(* per config, level, current limit, in this order, and nothing else.      *)
(***************************************************************************)
C5_ConfigureOrder ==
    [][\A v \in Levels, i \in Limits, ar \in BOOLEAN :
          (connected /\ last'.op = "configure_voltage_source"
           /\ ConfigureVoltageSource(v, i, ar)) =>
             /\ Len(last'.calls) = 4
             /\ \A k \in 1..4 : last'.calls[k].kind = "write" /\ last'.calls[k].cmd[1] = channel
             /\ last'.calls[1].cmd = <<channel, "source", "func", "=", channel, "OUTPUT_DCVOLTS">>
             /\ last'.calls[2].cmd =
                   <<channel, "source", "autorangev", "=", channel,
                     IF ar THEN "AUTORANGE_ON" ELSE "AUTORANGE_OFF">>
             /\ last'.calls[3].cmd = <<channel, "source", "levelv", "=", ToString(v)>>
             /\ last'.calls[4].cmd = <<channel, "source", "limiti", "=", ToString(i)>>]_vars

C5_Witness ==
    /\ last.op = "configure_voltage_source" /\ connected /\ last.err = ""
    /\ Len(last.calls) = 4
    /\ IsLevelWrite(last.calls[3]) /\ IsLimitWrite(last.calls[4])

(***************************************************************************)
(* C6: after configureVoltageSource(config) on a controller connected to   *)
(* the emulator, the active channel's record has source function           *)
(* DC-voltage and the autorange, level and limit of config.                *)
(***************************************************************************)
C6_ConfigureReadBack ==
    [][(connected /\ last'.op = "configure_voltage_source") =>
          /\ last'.err = ""
          /\ \E v \in Levels, i \in Limits, ar \in BOOLEAN :
                [j \in 1..Len(last'.calls) |-> last'.calls[j].cmd]
                   = ConfigureCommands(alias(channel), v, i, ar)
          /\ \A v \in Levels, i \in Limits, ar \in BOOLEAN :
                ([j \in 1..Len(last'.calls) |-> last'.calls[j].cmd]
                    = ConfigureCommands(alias(channel), v, i, ar)) =>
                   /\ transport'.channels[channel].func = "OUTPUT_DCVOLTS"
                   /\ transport'.channels[channel].autorange = ar
                   /\ transport'.channels[channel].level_v = v
                   /\ transport'.channels[channel].limit_i = i]_vars

C6_Witness ==
    /\ last.op = "configure_voltage_source" /\ connected /\ last.err = ""
    /\ transport.channels[channel].autorange = FALSE
    /\ transport.channels[channel].level_v = MaxLevel
    /\ transport.channels[channel].limit_i = MaxLimit

(***************************************************************************)
(* C7: no per-channel operation changes any field of the emulator record   *)
(* of a channel other than the active one, nor the active channel.         *)
(***************************************************************************)
PerChannelOps ==
    {"configure_voltage_source", "set_voltage", "set_current_limit", "quick_set_source",
     "enable_output", "ramp_to_voltage", "ramp_to_zero", "configure_display_for_voltage"}

C7_ChannelsIndependent ==
    [][last'.op \in PerChannelOps =>
          /\ channel' = channel
          /\ DOMAIN transport'.channels = DOMAIN transport.channels
          /\ \A c \in DOMAIN transport.channels \ {channel} :
                transport'.channels[c] = transport.channels[c]]_vars

C7_Witness ==
    /\ last.op = "set_voltage" /\ last.err = "" /\ channel = "smub"
    /\ transport.channels["smub"].level_v = 0
    /\ transport.channels["smua"].level_v = MaxLevel
    /\ transport.channels["smua"].output_on

(***************************************************************************)
(* C8: selectChannel(c) with c already active sends nothing and changes    *)
(* nothing; with another c, on a connected controller, it makes c active   *)
(* and sends exactly the reset of c: c's emulator record is at defaults    *)
(* afterwards, the previously active channel's record and the device-wide  *)
(* state are unchanged.                                                    *)
(***************************************************************************)
C8_SelectChannel ==
    [][last'.op = "select_channel" =>
          \A c \in Channel : SelectChannel(c) =>
             IF c = channel
             THEN /\ last'.calls = <<>> /\ last'.err = ""
                  /\ <<transport', channel', connected'>> = <<transport, channel, connected>>
             ELSE connected =>
                  /\ channel' = c /\ last'.err = "" /\ connected'
                  /\ Len(last'.calls) = 1
                  /\ last'.calls[1].kind = "write" /\ last'.calls[1].cmd = <<c, "reset()">>
                  /\ transport'.channels[c].output_on = FALSE
                  /\ transport'.channels[c].level_v = 0
                  /\ transport'.channels[c].compliance = FALSE
                  /\ transport'.channels[c] = ChannelStateDefault
                  /\ transport'.channels[channel] = transport.channels[channel]
                  /\ transport'.beeper_enabled = transport.beeper_enabled
                  /\ transport'.display_screen = transport.display_screen
                  /\ transport'.last_beep = transport.last_beep
                  /\ transport'.error_queue = transport.error_queue]_vars

C8_Witness ==
    /\ last.op = "select_channel" /\ last.err = "" /\ connected
    /\ Len(last.calls) = 1 /\ channel = "smub"
    /\ transport.channels["smua"].output_on
    /\ transport.error_queue # <<>>
    /\ transport.channels["smub"] = ChannelStateDefault

(***************************************************************************)
(* C9: on a controller connected to the emulator, rampToVoltage with       *)
(* step > 0 and dwell >= 0 completes without error and leaves the active   *)
(* channel's commanded level equal to target.                              *)
(***************************************************************************)
C9_RampReachesTarget ==
    [][last'.op = "ramp_to_voltage" =>
          \A v \in Levels, i \in OptLimits :
             (connected /\ RampToVoltage(v, 1, 0, i)) =>
                /\ last'.err = ""
                /\ transport'.channels[channel].level_v = v]_vars

(***************************************************************************)
(* C10: one rampToVoltage call writes the compliance limit at most once,   *)
(* and only right after the first level write of the ramp; a ramp given    *)
(* no limit writes no limit at all.                                        *)
(***************************************************************************)
LimitWrites(calls) == {j \in 1..Len(calls) : IsLimitWrite(calls[j])}
LevelWrites(calls) == {j \in 1..Len(calls) : IsLevelWrite(calls[j])}

C10_LimitOnFirstStepOnly ==
    /\ [][last'.op = "ramp_to_voltage" =>
             /\ Cardinality(LimitWrites(last'.calls)) <= 1
             /\ \A j \in LimitWrites(last'.calls) :
                   /\ j - 1 \in LevelWrites(last'.calls)
                   /\ \A k \in LevelWrites(last'.calls) : k >= j - 1]_vars
    /\ [](\A v \in RampLevels, st \in Steps, d \in Dwells :
             LimitWrites(RampToVoltageOp(Start(transport), connected, alias(channel),
                                         v, st, d, None).calls) = {})

C10_Witness ==
    /\ last.op = "ramp_to_voltage" /\ last.err = ""
    /\ Cardinality(LevelWrites(last.calls)) = 3
    /\ Cardinality(LimitWrites(last.calls)) = 1

(***************************************************************************)
(* C11: a rampToVoltage that completes returns true exactly when one of    *)
(* its compliance queries was answered 'tripped' (the OR over all steps,   *)
(* also when a later step reads 'not tripped').                            *)
(***************************************************************************)
IsComplianceQuery(call) == call.kind = "query" /\ QueryKind(call.cmd) = "compliance"
Tripped(call) == call.resp \in {<<"1">>, <<"true">>, <<"True">>}
ComplianceReads(calls) == {j \in 1..Len(calls) : IsComplianceQuery(calls[j])}

C11_ComplianceIsOrOfSteps ==
    [][(last'.op = "ramp_to_voltage" /\ last'.err = "") =>
          last'.ret = Some(\E j \in ComplianceReads(last'.calls) : Tripped(last'.calls[j]))]_vars

\* tripped at the first step, cleared at the second: the ramp still returns true
C11_Witness ==
    /\ last.op = "ramp_to_voltage" /\ last.err = "" /\ last.ret = Some(TRUE)
    /\ \E j, k \in ComplianceReads(last.calls) :
          j < k /\ Tripped(last.calls[j]) /\ ~Tripped(last.calls[k])

(***************************************************************************)
(* C12: a rampToVoltage with dwell > 0 that completes pauses exactly       *)
(* ceil(|D| / step) times, each time for dwell, D being the target minus   *)
(* the level answered at the start of the ramp.                            *)
(***************************************************************************)
\* the level a ramp starts from: what its first query was answered
StartLevel(calls) == IF calls[1].resp = <<>> THEN 0 ELSE ParseFloat(calls[1].resp)
Sleeps(calls) == {j \in 1..Len(calls) : calls[j].kind = "sleep"}
CeilDiv(n, d) == (n + d - 1) \div d

C12_DwellPerStep ==
    [][(last'.op = "ramp_to_voltage" /\ last'.err = "") =>
          \A v \in RampLevels, st \in Steps, d \in Dwells, i \in OptLimits :
             (d > 0 /\ st > 0 /\ RampToVoltage(v, st, d, i)) =>
                /\ Cardinality(Sleeps(last'.calls))
                      = CeilDiv(Abs(v - StartLevel(last'.calls)), st)
                /\ \A j \in Sleeps(last'.calls) : last'.calls[j].cmd = <<FormatNumber(d)>>]_vars

(***************************************************************************)
(* C13: rampToVoltage with step <= 0 or dwell < 0 fails with               *)
(* InvalidArgument, makes no call on the transport and leaves the          *)
(* controller and the emulator as they were.                               *)
(***************************************************************************)
C13_InvalidRampRefused ==
    [][\/ last'.op # "ramp_to_voltage"
       \/ /\ last'.err = "InvalidArgument"
          /\ last'.calls = <<>>
          /\ <<transport', channel', connected'>> = <<transport, channel, connected>>
       \/ \A v \in Levels, st \in StepArgs, d \in DwellArgs, i \in OptLimits :
             (st <= 0 \/ d < 0) => ~RampToVoltage(v, st, d, i)]_vars

C13_Witness ==
    /\ last.op = "ramp_to_voltage" /\ last.err = "InvalidArgument" /\ last.calls = <<>>
    /\ connected /\ transport.is_open
    /\ transport.channels[channel].output_on
    /\ transport.channels[channel].level_v = MaxLevel

(***************************************************************************)
(* C14: rampToZero whose level query is answered a level within tolerance  *)
(* of zero sends nothing further (no write, no other query), reports no    *)
(* progress, does not pause, and returns false.                            *)
(***************************************************************************)
C14_RampToZeroNoOp ==
    [][last'.op = "ramp_to_zero" =>
          \/ /\ last'.err = ""
             /\ Len(last'.calls) = 1
             /\ last'.calls[1].kind = "query" /\ QueryKind(last'.calls[1].cmd) = "level"
             /\ last'.ret = Some(FALSE)
          \/ \A st \in Steps, d \in Dwells, tol \in Tolerances, i \in OptLimits :
                (/\ Len(last'.calls) >= 1 /\ last'.calls[1].err = ""
                 /\ Abs(StartLevel(last'.calls)) <= tol) =>
                   ~RampToZero(st, d, tol, i)]_vars

\* a level of one unit, within a tolerance of one unit
C14_Witness ==
    /\ last.op = "ramp_to_zero" /\ last.err = "" /\ last.ret = Some(FALSE)
    /\ Len(last.calls) = 1 /\ last.calls[1].resp = <<FormatNumber(1)>>

(***************************************************************************)
(* C15: on a controller connected to the emulator, rampToZero returns      *)
(* normally and leaves the active channel's commanded level within         *)
(* tolerance of zero.                                                      *)
(***************************************************************************)
C15_RampToZeroReachesZero ==
    [][(last'.op = "ramp_to_zero" /\ connected) =>
          \A i \in OptLimits :
             RampToZero(1, 0, 0, i) =>
                /\ last'.err = ""
                /\ Abs(transport'.channels[channel].level_v) <= 0]_vars

(***************************************************************************)
(* C16: a drainErrorQueue that completes sends the error-count query and   *)
(* then exactly count pop-and-format queries, count being the number the   *)
(* count query answered (none when it answered zero, nothing, or no        *)
(* positive number), whatever the pops answer; with no pop it returns the  *)
(* empty sequence.                                                         *)
(***************************************************************************)
AnsweredCount(resp) ==
    IF Len(resp) = 1 /\ IsIntText(resp[1]) /\ ParseNumber(resp[1]) > 0
    THEN ParseNumber(resp[1]) ELSE 0

C16_DrainQueryCount ==
    [][(last'.op = "drain_error_queue" /\ last'.err = "") =>
          /\ Len(last'.calls) >= 1
          /\ last'.calls[1].kind = "query" /\ last'.calls[1].cmd = QueryErrorCount
          /\ Len(last'.calls) = 1 + AnsweredCount(last'.calls[1].resp)
          /\ \A j \in 2..Len(last'.calls) :
                last'.calls[j].kind = "query" /\ last'.calls[j].cmd = QueryErrorPop
          /\ (Len(last'.calls) = 1 => last'.ret = Some(<<>>))]_vars

\* a count of two, a first pop answering nothing and a second one answering an entry
C16_Witness ==
    /\ last.op = "drain_error_queue" /\ last.err = ""
    /\ Len(last.calls) = 3 /\ last.calls[1].resp = <<FormatNumber(2)>>
    /\ last.calls[2].resp = <<>>
    /\ Len(last.calls[3].resp) = 4
    /\ Len(last.ret[1]) = 1

(***************************************************************************)
(* C17: on a controller connected to the emulator, drainErrorQueue returns *)
(* exactly the entries pushed and not yet drained, each once, oldest       *)
(* first, whatever their message text, and leaves the emulator's queue     *)
(* empty (so that a drain right after it returns the empty sequence).      *)
(***************************************************************************)
C17_DrainReturnsPushed ==
    [][(last'.op = "drain_error_queue" /\ connected) =>
          /\ last'.err = ""
          /\ last'.ret = Some(transport.error_queue)
          /\ transport'.error_queue = <<>>]_vars

(***************************************************************************)
(* C18: an open emulator answers every write of a text outside its         *)
(* write-command table, and every query outside its modelled queries,      *)
(* with UnsupportedCommand; it accepts none of them.                       *)
(***************************************************************************)
C18_UnknownSyntaxRefused ==
    [][(/\ transport.is_open
        /\ \/ last'.op = "transport.write" /\ last'.calls[1].cmd \in UnknownWrites
           \/ last'.op = "transport.query" /\ last'.calls[1].cmd \in UnknownQueries)
       => last'.err = "UnsupportedCommand"]_vars

(***************************************************************************)
(* C19: quickSetSource, whatever level and limit it is given and whether   *)
(* the output is on or off, sends no output write and leaves the active    *)
(* channel's output-enabled flag, source function and autorange flag as    *)
(* they were.                                                              *)
(***************************************************************************)
C19_QuickSetKeepsOutput ==
    [][last'.op = "quick_set_source" =>
          /\ \A j \in 1..Len(last'.calls) : ~IsSourceWrite(last'.calls[j], "output")
          /\ transport'.channels[channel].output_on = transport.channels[channel].output_on
          /\ transport'.channels[channel].func = transport.channels[channel].func
          /\ transport'.channels[channel].autorange = transport.channels[channel].autorange]_vars

\* level and limit both written while the output is on and autorange off
C19_Witness ==
    /\ last.op = "quick_set_source" /\ last.err = ""
    /\ Len(last.calls) = 3 /\ IsLevelWrite(last.calls[1]) /\ IsLimitWrite(last.calls[2])
    /\ transport.channels[channel].output_on
    /\ ~transport.channels[channel].autorange
    /\ transport.channels[channel].level_v = MaxLevel
    /\ transport.channels[channel].limit_i = MaxLimit

(***************************************************************************)
(* C20: identify() on a controller that is not connected fails with        *)
(* NotConnected without sending the identification query; on a connected   *)
(* controller it returns the transport's response as it is.                *)
(***************************************************************************)
C20_IdentifyRequiresConnection ==
    [][last'.op = "identify" =>
          IF connected
          THEN /\ last'.err = "" /\ Len(last'.calls) = 1
               /\ last'.calls[1].cmd = QueryIdn
               /\ last'.ret = Some(last'.calls[1].resp)
          ELSE /\ last'.err = "NotConnected"
               /\ last'.calls = <<>>]_vars

(***************************************************************************)
(* C21: in drainErrorQueue a transport failure of the count query fails    *)
(* the whole call with no pop sent, whereas a transport failure of one pop *)
(* query is skipped: the call still succeeds, every pop the count          *)
(* announced is sent, and the entries parsed from the pops that answered   *)
(* are returned.                                                           *)
(***************************************************************************)
WellFormed(resp) ==
    Len(resp) = 4 /\ IsIntText(resp[1]) /\ IsIntText(resp[3]) /\ IsIntText(resp[4])

EntryOf(resp) ==
    [code |-> ParseNumber(resp[1]), message |-> <<resp[2]>>,
     severity |-> ParseNumber(resp[3]), node |-> ParseNumber(resp[4])]

\* the entries of the well-formed answers among calls, in the order received
RECURSIVE EntriesAnswered(_)
EntriesAnswered(calls) ==
    IF calls = <<>> THEN <<>>
    ELSE (IF Head(calls).err = "" /\ WellFormed(Head(calls).resp)
          THEN <<EntryOf(Head(calls).resp)>> ELSE <<>>)
         \o EntriesAnswered(Tail(calls))

C21_PopFailureSkipped ==
    [][(last'.op = "drain_error_queue" /\ Len(last'.calls) >= 1) =>
          IF last'.calls[1].err # ""
          THEN last'.err # "" /\ Len(last'.calls) = 1
          ELSE /\ last'.err = ""
               /\ Len(last'.calls) = 1 + AnsweredCount(last'.calls[1].resp)
               /\ last'.ret = Some(EntriesAnswered(Tail(last'.calls)))]_vars

(***************************************************************************)
(* C22: when the k-th write of configureVoltageSource's four writes fails, *)
(* the call fails with the transport's error as it was raised, the writes  *)
(* before the k-th have been delivered in the sequence's order, and no     *)
(* write after the k-th is sent.                                           *)
(***************************************************************************)
C22_ConfigureAbortsAtFailure ==
    [][(/\ last'.op = "configure_voltage_source" /\ connected
        /\ transport.fail_at \in 1..Len(ConfigureCommands(alias(channel), 0, 1, TRUE)))
       => LET k == transport.fail_at
          IN  /\ Len(last'.calls) = k
              /\ last'.calls[k].kind = "write" /\ last'.calls[k].err = "TransportFailure"
              /\ last'.err = last'.calls[k].err
              /\ \A j \in 1..(k - 1) : last'.calls[j].kind = "write" /\ last'.calls[j].err = ""
              /\ \E v \in Levels, i \in Limits, ar \in BOOLEAN :
                    \A j \in 1..k :
                       last'.calls[j].cmd = ConfigureCommands(alias(channel), v, i, ar)[j]]_vars

\* the level write fails: function and autorange are delivered, the limit is never sent
C22_Witness ==
    /\ last.op = "configure_voltage_source" /\ last.err = "TransportFailure"
    /\ Len(last.calls) = 3
    /\ last.calls[1].err = "" /\ last.calls[2].err = ""
    /\ IsLevelWrite(last.calls[3]) /\ last.calls[3].err = "TransportFailure"

(***************************************************************************)
(* C23: the level writes of a rampToVoltage that completes, the device     *)
(* having answered the level query with L, go from L toward the target T   *)
(* strictly and without passing T: each written level differs from the one *)
(* before it (L for the first) by at most step, the last one is T, and     *)
(* there are max(1, ceil(|T - L| / step)) of them.                         *)
(***************************************************************************)
WrittenLevel(call) ==
    CHOOSE n \in (0 - 2 ^ (MantissaBits + 2))..(2 ^ (MantissaBits + 2)) :
        FormatNumber(n) = LastToken(call.cmd)

Stepwise(calls, target_v, step_v) ==
    LET L == StartLevel(calls)
        ws == SelectSeq(calls, IsLevelWrite)
        w(j) == WrittenLevel(ws[j])
        prev(j) == IF j = 1 THEN L ELSE w(j - 1)
        n == CeilDiv(Abs(target_v - L), step_v)
    IN  /\ Len(ws) = (IF n < 1 THEN 1 ELSE n)
        /\ w(Len(ws)) = target_v
        /\ \A j \in 1..Len(ws) :
              /\ Abs(w(j) - prev(j)) <= step_v
              /\ Min(L, target_v) <= w(j) /\ w(j) <= 0 - Min(0 - L, 0 - target_v)
              /\ (target_v > L => w(j) > prev(j))
              /\ (target_v < L => w(j) < prev(j))

C23_RampStepwise ==
    [][\/ last'.op # "ramp_to_voltage"
       \/ last'.err # ""
       \/ \A r \in RampArgs, d \in Dwells, i \in OptLimits :
             RampToVoltage(r[1], r[2], d, i) => Stepwise(last'.calls, r[1], r[2])]_vars

(***************************************************************************)
(* C24: a selectChannel(c) that fails, the controller being not connected  *)
(* or the transport refusing the reset write, leaves the controller's      *)
(* active channel as it was (so a later selectChannel(c) is no no-op and   *)
(* sends the reset of c).                                                  *)
(***************************************************************************)
C24_FailedSelectKeepsChannel ==
    [][(last'.op = "select_channel" /\ last'.err # "") => channel' = channel]_vars

(***************************************************************************)
(* C25: in a ramp, a voltage-measurement query that fails (the transport   *)
(* raises, or the response is no number) does not abort the ramp: the      *)
(* progress callback of that step is called with the commanded level and   *)
(* no reading, and when nothing but measurements failed the ramp completes *)
(* with every one of its steps written.                                    *)
(***************************************************************************)
IsMeasureQuery(call) == call.kind = "query" /\ QueryKind(call.cmd) = "measure"

MeasurementFailed(call) ==
    IsMeasureQuery(call) /\ (call.err # "" \/ ~IsFloatText(call.resp))

\* the level commanded by the last level write before call j
CommandedBefore(calls, j) ==
    LET k == CHOOSE k \in LevelWrites(calls) :
                k < j /\ \A m \in LevelWrites(calls) : m < j => m <= k
    IN  LastToken(calls[k].cmd)

MeasurementFailuresSwallowed(c, target_v, step_v) ==
    /\ \A j \in 1..Len(c.calls) :
          MeasurementFailed(c.calls[j]) =>
             /\ j + 1 <= Len(c.calls)
             /\ c.calls[j + 1].kind = "progress"
             /\ c.calls[j + 1].cmd = <<CommandedBefore(c.calls, j), "None">>
    /\ (/\ c.calls # <<>>
        /\ \A j \in 1..Len(c.calls) : c.calls[j].err # "" => IsMeasureQuery(c.calls[j]))
       => /\ c.err = "" /\ c.ret # None
          /\ LET n == CeilDiv(Abs(target_v - StartLevel(c.calls)), step_v)
             IN  Cardinality(LevelWrites(c.calls)) = (IF n < 1 THEN 1 ELSE n)

C25_MeasurementFailureSwallowed ==
    [](last.op \in {"init", "device"} =>
          \A v \in RampLevels, st \in Steps, d \in Dwells, i \in OptLimits :
             MeasurementFailuresSwallowed(
                 RampToVoltageOp(Start(transport), connected, alias(channel), v, st, d, i), v, st))

\* the measurement of the first step raises and the second step is written all the same
C25_Witness ==
    /\ last.op = "ramp_to_voltage" /\ last.err = "" /\ last.ret # None
    /\ \E j \in 1..Len(last.calls) :
          /\ IsMeasureQuery(last.calls[j]) /\ last.calls[j].err = "TransportFailure"
          /\ last.calls[j + 1].kind = "progress" /\ last.calls[j + 1].cmd[2] = "None"
          /\ \E k \in LevelWrites(last.calls) : k > j /\ last.calls[k].err = ""

(***************************************************************************)
(* C26: in a ramp, a level write that fails ends the ramp with the         *)
(* transport's error: the failed write is the last thing the ramp does (no *)
(* later level or limit write, compliance query, measurement, progress     *)
(* call or pause), so the device keeps the level of the last step that was *)
(* written successfully.                                                   *)
(***************************************************************************)
C26_FailedLevelWriteEndsRamp ==
    [][last'.op \in {"ramp_to_voltage", "ramp_to_zero"} =>
          \A j \in LevelWrites(last'.calls) :
             last'.calls[j].err # "" =>
                /\ j = Len(last'.calls)
                /\ last'.err = last'.calls[j].err]_vars

\* the level write of the second step fails after the first step went through
C26_Witness ==
    /\ last.op = "ramp_to_voltage" /\ last.err = "TransportFailure"
    /\ Cardinality(LevelWrites(last.calls)) = 2
    /\ \E j \in LevelWrites(last.calls) :
          /\ last.calls[j].err = "" /\ last.calls[j].cmd = CmdLevel(alias(channel), 1)
          /\ \E k \in Sleeps(last.calls) : k > j
    /\ last.calls[Len(last.calls)].cmd = CmdLevel(alias(channel), 2)
    /\ last.calls[Len(last.calls)].err = "TransportFailure"

(***************************************************************************)
(* C27: a rampToVoltage with valid arguments on which no transport call    *)
(* fails returns after max(1, ceil(|T - L| / step)) steps, each of them    *)
(* run in full (level write, compliance query, measurement, progress       *)
(* call), also when an earlier step has read compliance as tripped.  The   *)
(* levels and steps are those whose sums need no rounding.                 *)
(***************************************************************************)
RunsEveryStep(c, target_v, step_v, current_limit_a) ==
    (c.calls # <<>> /\ \A j \in 1..Len(c.calls) : c.calls[j].err = "")
    => LET n == CeilDiv(Abs(target_v - StartLevel(c.calls)), step_v)
           steps == IF n < 1 THEN 1 ELSE n
       IN  /\ c.err = "" /\ c.ret # None
           /\ Cardinality(LevelWrites(c.calls)) = steps
           /\ Cardinality(ComplianceReads(c.calls)) = steps
           /\ Cardinality({j \in 1..Len(c.calls) : IsMeasureQuery(c.calls[j])}) = steps
           /\ Cardinality({j \in 1..Len(c.calls) : c.calls[j].kind = "progress"}) = steps
           /\ Len(c.calls) - Cardinality(Sleeps(c.calls))
                 = 1 + 4 * steps + (IF current_limit_a # None THEN 1 ELSE 0)

C27_RampRunsToCompletion ==
    [](last.op \in {"init", "device"} =>
          \A v \in RampLevels, st \in Steps, d \in Dwells, i \in OptLimits :
             RunsEveryStep(
                 RampToVoltageOp(Start(transport), connected, alias(channel), v, st, d, i),
                 v, st, i))

\* compliance reads as tripped at the first of two steps and the second step is run
C27_Witness ==
    /\ last.op = "ramp_to_voltage" /\ last.err = "" /\ last.ret = Some(TRUE)
    /\ Cardinality(LevelWrites(last.calls)) = 2
    /\ Cardinality(ComplianceReads(last.calls)) = 2
    /\ \E j \in ComplianceReads(last.calls) :
          /\ Tripped(last.calls[j])
          /\ \E k \in LevelWrites(last.calls) : k > j
          /\ \E k \in ComplianceReads(last.calls) : k > j /\ ~Tripped(last.calls[k])

(***************************************************************************)
(* C28: when the level rampToZero reads back after its delegated ramp      *)
(* still exceeds the tolerance, rampToZero performs one more quick set     *)
(* that writes the level 0 and no limit (a level write and the compliance  *)
(* query that follows it); when the level read back is within tolerance it *)
(* sends nothing more.                                                     *)
(***************************************************************************)
LevelQueries(calls) ==
    {j \in 1..Len(calls) : calls[j].kind = "query" /\ QueryKind(calls[j].cmd) = "level"}

AnsweredLevel(call) == IF call.resp = <<>> THEN 0 ELSE ParseFloat(call.resp)

TrimWritesLevelOnly(calls, tolerance_v) ==
    Cardinality(LevelQueries(calls)) >= 3 =>
       LET b == CHOOSE j \in LevelQueries(calls) : \A k \in LevelQueries(calls) : k <= j
           after == SubSeq(calls, b + 1, Len(calls))
       IN  IF Abs(AnsweredLevel(calls[b])) > tolerance_v
           THEN /\ Len(after) = 2
                /\ IsLevelWrite(after[1]) /\ LastToken(after[1].cmd) = FormatNumber(0)
                /\ IsComplianceQuery(after[2])
           ELSE after = <<>>

C28_TrimWritesLevelOnly ==
    [][\/ last'.op # "ramp_to_zero"
       \/ last'.err # ""
       \/ \A st \in Steps, d \in Dwells, tol \in Tolerances, i \in OptLimits :
             RampToZero(st, d, tol, i) => TrimWritesLevelOnly(last'.calls, tol)]_vars

(***************************************************************************)
(* C29: rampToVoltage and rampToZero, whatever their arguments and         *)
(* whatever the device answers, send no output on/off write, also when the *)
(* ramp has brought the level to zero: the output stays as it was.         *)
(***************************************************************************)
C29_RampsKeepOutput ==
    [][last'.op \in {"ramp_to_voltage", "ramp_to_zero"} =>
          \A j \in 1..Len(last'.calls) :
             last'.calls[j].kind = "write" => ~IsSourceWrite(last'.calls[j], "output")]_vars

\* a rampToZero that has stepped down to zero and returned
C29_Witness ==
    /\ last.op = "ramp_to_zero" /\ last.err = "" /\ last.ret # None
    /\ Cardinality(LevelWrites(last.calls)) >= 2
    /\ \E j \in LevelWrites(last.calls) :
          /\ last.calls[j].cmd = CmdLevel(alias(channel), 0) /\ last.calls[j].err = ""
          /\ \E k \in LevelQueries(last.calls) : k > j /\ AnsweredLevel(last.calls[k]) = 0

(***************************************************************************)
(* C30: in drainErrorQueue a pop response that is empty, has not four      *)
(* "|"-separated fields, or has a code, severity or node that is no        *)
(* integer, is skipped without an error: when no query fails the drain     *)
(* sends every pop the count announced and returns exactly the entries of  *)
(* the well-formed responses, in the order received.                       *)
(***************************************************************************)
C30_MalformedPopsSkipped ==
    [][(/\ last'.op = "drain_error_queue"
        /\ \A j \in 1..Len(last'.calls) : last'.calls[j].err = "")
       => /\ last'.err = ""
          /\ Len(last'.calls) = 1 + AnsweredCount(last'.calls[1].resp)
          /\ last'.ret = Some(EntriesAnswered(Tail(last'.calls)))
          /\ Len(last'.ret[1])
                = Cardinality({j \in 2..Len(last'.calls) : WellFormed(last'.calls[j].resp)})]_vars

\* a first pop with a code that is no integer, then a well-formed one
C30_Witness ==
    /\ last.op = "drain_error_queue" /\ last.err = ""
    /\ Len(last.calls) = 3
    /\ Len(last.calls[2].resp) = 4 /\ ~IsIntText(last.calls[2].resp[1])
    /\ WellFormed(last.calls[3].resp)
    /\ last.ret = Some(<<EntryOf(last.calls[3].resp)>>)

(***************************************************************************)
(* C31: quickSetSource on a connected controller sends a level write only  *)
(* when it is given a level and a limit write only when it is given a      *)
(* limit, the level before the limit, and then the compliance query as its *)
(* last call; it returns the active channel's compliance state as it is    *)
(* after the writes.  Given neither, it sends the compliance query alone.  *)
(***************************************************************************)
QuickSetCalls(calls, a, level_v, current_limit_a) ==
    LET n == (IF level_v # None THEN 1 ELSE 0) + (IF current_limit_a # None THEN 1 ELSE 0)
    IN  /\ Len(calls) = n + 1
        /\ level_v # None =>
              calls[1].kind = "write" /\ calls[1].cmd = CmdLevel(a, level_v[1])
        /\ current_limit_a # None =>
              calls[n].kind = "write" /\ calls[n].cmd = CmdLimit(a, current_limit_a[1])
        /\ calls[n + 1].kind = "query" /\ calls[n + 1].cmd = QueryCompliance(a)
        /\ \A j \in 1..(n + 1) : calls[j].err = ""

C31_QuickSetWritesThenReads ==
    [][\/ last'.op # "quick_set_source"
       \/ ~connected
       \/ \A v \in OptLevels, i \in OptLimits :
             QuickSetSource(v, i) =>
                /\ last'.err = ""
                /\ QuickSetCalls(last'.calls, alias(channel), v, i)
                /\ last'.ret = Some(transport'.channels[channel].compliance)
                /\ v # None => transport'.channels[channel].level_v = v[1]
                /\ i # None => transport'.channels[channel].limit_i = i[1]]_vars

\* level and limit both given while compliance is tripped
C31_Witness ==
    /\ last.op = "quick_set_source" /\ last.err = "" /\ last.ret = Some(TRUE)
    /\ Len(last.calls) = 3
    /\ IsLevelWrite(last.calls[1]) /\ IsLimitWrite(last.calls[2])
    /\ IsComplianceQuery(last.calls[3]) /\ Tripped(last.calls[3])
    /\ transport.channels[channel].compliance

(***************************************************************************)
(* A drain with another user of the emulator at work.  drain_error_queue   *)
(* holds no lock between its queries, so whoever else holds the emulator   *)
(* (a test thread calling push_error, or sending errorqueue.clear()) may   *)
(* act after the count query and before each pop.  Each emulator call is   *)
(* one step: the interpreter does not switch threads between the test      *)
(* `if self._error_queue` and the pop(0) that follows it.  The calls of    *)
(* the other user are recorded among the drain's, in the order the         *)
(* emulator saw them.                                                      *)
(***************************************************************************)
\* what the other user does between two queries of the drain: nothing, or
\* it clears the queue, or it pushes an entry
Meanwhile ==
    {[clear |-> b, pushed |-> <<>>] : b \in BOOLEAN} \cup {[clear |-> FALSE, pushed |-> <<e>>] : e \in Entries}

\* one such step for every pop a drain may send
Schedules == [1..MaxBacklog -> Meanwhile]

\* the other user's step: the emulator sees its calls between the drain's
Interfere(x, ev) ==
    LET c == IF ev.clear
             THEN Do(x, "other.write", CmdErrorQueueClear, SimWrite(x.t, CmdErrorQueueClear))
             ELSE x
    IN  IF ev.pushed = <<>> THEN c
        ELSE [c EXCEPT !.t.error_queue = @ \o ev.pushed,
                       !.calls = Append(@, Call("other.push_error", FormatEntry(ev.pushed[1]), "", <<>>))]

\* the interleaved loop giving up at the first pop that answers nothing
RECURSIVE DrainLoopAmidUntilEmpty(_, _, _, _)
DrainLoopAmidUntilEmpty(x, entries, n, meanwhile) ==
    IF x.err # "" THEN x
    ELSE IF n = 0 THEN Return(x, entries)
    ELSE LET q == Query(Interfere(x, Head(meanwhile)), QueryErrorPop)
         IN  IF q.err = "" /\ q.resp = <<>> THEN Return(q, entries)
             ELSE DrainLoopAmidUntilEmpty(q, entries \o ParseEntry(q.resp), n - 1, Tail(meanwhile))

\* the for loop of drain_error_queue, the other user acting before each pop
RECURSIVE DrainLoopAmid(_, _, _, _)
DrainLoopAmid(x, entries, n, meanwhile) ==
    IF x.err # "" THEN x
    ELSE IF n = 0 THEN Return(x, entries)
    ELSE LET q == Query(Interfere(x, Head(meanwhile)), QueryErrorPop)
         IN  DrainLoopAmid(q, entries \o ParseEntry(q.resp), n - 1, Tail(meanwhile))

\* Keithley2612Controller.drain_error_queue, interleaved after its count query
DrainErrorQueueAmidOp(x, meanwhile) ==
    LET q == Query(x, QueryErrorCount)
    IN  IF q.err # "" THEN [q EXCEPT !.err = "RuntimeError"]
        ELSE LET text == IF q.resp = <<>> THEN <<"0">> ELSE q.resp
                 count == IF Len(text) = 1 /\ IsIntText(text[1]) THEN ParseNumber(text[1]) ELSE 0
             IN  IF count <= 0 THEN Return(q, <<>>) ELSE DrainLoopAmid(q, <<>>, count, meanwhile)

DrainErrorQueueAmid(meanwhile) ==
    /\ Finish("drain_error_queue", DrainErrorQueueAmidOp(Start(transport), meanwhile))
    /\ UNCHANGED <<channel, connected, nops>>

\* SimulatedTransport.push_error while no drain is running
Enqueue(entry) ==
    /\ Len(transport.error_queue) < MaxBacklog
    /\ transport' = [transport EXCEPT !.error_queue = Append(@, entry)]
    /\ last' = [NoOp EXCEPT !.op = "push_error"]
    /\ UNCHANGED <<channel, connected, everReset, nops>>

NextDrain ==
    \/ Unmetered /\ Connect
    \/ Unmetered /\ Disconnect
    \/ \E e \in Entries : Enqueue(e)
    \/ \E meanwhile \in Schedules : DrainErrorQueueAmid(meanwhile)

SpecDrain == InitSim /\ [][NextDrain]_vars

(***************************************************************************)
(* C32: a drain whose count query answered n > 0 sends exactly n pops      *)
(* whatever is pushed or cleared before each of them.  When nothing is     *)
(* cleared, the pops answer the n entries that were queued at the count    *)
(* query, oldest first, those are the entries returned, and the entries    *)
(* pushed meanwhile stay queued in the order pushed.  When the queue is    *)
(* cleared and nothing is pushed afterwards, the remaining pops answer     *)
(* nothing and are skipped; the drain does not fail.                       *)
(***************************************************************************)
\* the message is one piece: it holds no "|"
PipeFree(e) == Len(e.message) = 1

\* the calls of a drain apart from those of the other user
IsOwnCall(call) == call.kind = "query"
IsOtherPush(call) == call.kind = "other.push_error"
IsOtherClear(call) == call.kind = "other.write"

\* the outcome the claim describes, for the queue `oldest` at the count query
\* and the calls the emulator saw; `returned` is what the drain is to return
\* when nothing is cleared
DrainAmidOutcome(oldest, calls, returned) ==
    LET n == Len(oldest)
        own == SelectSeq(calls, IsOwnCall)
        pushed == SelectSeq(calls, IsOtherPush)
    IN  /\ last'.err = ""
        /\ Len(own) = n + 1
        /\ own[1].cmd = QueryErrorCount /\ own[1].resp = <<FormatNumber(n)>>
        /\ \A j \in 2..(n + 1) : own[j].cmd = QueryErrorPop /\ own[j].err = ""
        /\ (\A p \in 1..Len(calls) : ~IsOtherClear(calls[p])) =>
              /\ \A j \in 1..n : own[j + 1].resp = FormatEntry(oldest[j])
              /\ last'.ret = Some(returned)
              /\ Len(transport'.error_queue) = Len(pushed)
              /\ \A j \in 1..Len(pushed) : FormatEntry(transport'.error_queue[j]) = pushed[j].cmd
        /\ \A p \in 1..Len(calls) :
              (IsOtherClear(calls[p]) /\ \A j \in p..Len(calls) : ~IsOtherPush(calls[j])) =>
                 /\ calls[p].err = ""
                 /\ \A j \in p..Len(calls) : IsOwnCall(calls[j]) => calls[j].resp = <<>>
                 /\ last'.ret = Some(EntriesAnswered(SubSeq(calls, 1, p)))
                 /\ transport'.error_queue = <<>>

C32_WitnessCleared ==
    /\ last.op = "drain_error_queue" /\ last.err = ""
    /\ Len(SelectSeq(last.calls, IsOwnCall)) = 3
    /\ IsOtherClear(last.calls[3])
    /\ last.ret # None /\ Len(last.ret[1]) = 1
    /\ transport.error_queue = <<>>

(***************************************************************************)
(* C33: the full-device reset, written to an open emulator in any state,   *)
(* is accepted and leaves every channel record at its defaults (output     *)
(* off, level 0, compliance clear among them), the beeper disabled, the    *)
(* display screen at its initial selection and the error queue empty.      *)
(***************************************************************************)
IsRawWrite(command) ==
    last'.op = "transport.write" /\ Len(last'.calls) = 1 /\ last'.calls[1].cmd = command

C33_FullResetRestoresDefaults ==
    [][(transport.is_open /\ IsRawWrite(CmdRst)) =>
          /\ last'.err = ""
          /\ DOMAIN transport'.channels = DOMAIN transport.channels
          /\ \A c \in DOMAIN transport'.channels :
                /\ transport'.channels[c] = ChannelStateDefault
                /\ ~transport'.channels[c].output_on
                /\ transport'.channels[c].level_v = 0
                /\ ~transport'.channels[c].compliance
          /\ ~transport'.beeper_enabled
          /\ transport'.display_screen = SimulatedTransportInit.display_screen
          /\ transport'.error_queue = <<>>]_vars

\* a full reset has just been carried out
C33_Witness ==
    /\ last.op = "transport.write" /\ last.err = "" /\ last.calls[1].cmd = CmdRst
    /\ transport.is_open
    /\ \A c \in DOMAIN transport.channels : transport.channels[c] = ChannelStateDefault
    /\ transport.error_queue = <<>> /\ ~transport.beeper_enabled

(***************************************************************************)
(* C34: `<channel>.reset()`, written to an open emulator, puts the named   *)
(* channel's record at its defaults and changes nothing else: every other  *)
(* channel record, the beeper flag, the display screen, the last beep and  *)
(* the error queue are as they were.                                       *)
(***************************************************************************)
C34_ChannelResetIsLocal ==
    [][\A command \in RawWrites :
          (/\ transport.is_open
           /\ command # <<>> /\ LastToken(command) = "reset()"
           /\ IsRawWrite(command)) =>
             /\ last'.err = ""
             /\ command[1] \in DOMAIN transport'.channels
             /\ transport'.channels[command[1]] = ChannelStateDefault
             /\ \A c \in DOMAIN transport.channels \ {command[1]} :
                   transport'.channels[c] = transport.channels[c]
             /\ transport'.beeper_enabled = transport.beeper_enabled
             /\ transport'.display_screen = transport.display_screen
             /\ transport'.last_beep = transport.last_beep
             /\ transport'.error_queue = transport.error_queue
             /\ transport'.is_open]_vars

\* smua has just been reset while the rest of the device was not at rest
C34_Witness ==
    /\ last.op = "transport.write" /\ last.err = "" /\ last.calls[1].cmd = CmdReset("smua")
    /\ transport.channels["smua"] = ChannelStateDefault
    /\ transport.channels["smub"].compliance
    /\ transport.beeper_enabled
    /\ transport.display_screen # SimulatedTransportInit.display_screen
    /\ transport.last_beep # <<>>
    /\ transport.error_queue # <<>>

(***************************************************************************)
(* C38: a write or a query the emulator fails (it is not open, the text    *)
(* or the expression is unsupported, the channel is unknown, a level or a  *)
(* limit is no number) leaves the whole emulator as it was: the channel    *)
(* records, the beeper flag, the display screen, the last beep, the error  *)
(* queue and the open flag.                                                *)
(***************************************************************************)
C38_FailedCallChangesNothing ==
    [][(last'.op \in {"transport.write", "transport.query"} /\ last'.err # "") =>
          transport' = transport]_vars

\* a level that is no number was refused by an emulator that is sourcing
C38_Witness ==
    /\ last.op = "transport.write" /\ last.err = "ValueError"
    /\ last.calls[1].cmd \in MalformedWrites
    /\ transport.channels["smua"].output_on
    /\ transport.channels["smua"].level_v = MaxLevel
    /\ transport.error_queue # <<>>

(***************************************************************************)
(* C39: the emulator holds exactly two channel records at all times, one   *)
(* for each channel alias, whatever it has been written or asked.          *)
(***************************************************************************)
C39_TwoChannelRecords ==
    DOMAIN transport.channels = {alias(c) : c \in Channel}

(***************************************************************************)
(* C35: reset() on a connected controller sends two writes and no other    *)
(* call: the full-device reset, then the reset of the active channel.  The *)
(* active channel and the connected flag are as they were.                 *)
(***************************************************************************)
C35_ResetSendsTwoWrites ==
    [][(last'.op = "reset" /\ connected) =>
          /\ last'.err = ""
          /\ last'.calls = <<Call("write", CmdRst, "", <<>>),
                             Call("write", CmdReset(alias(channel)), "", <<>>)>>
          /\ channel' = channel
          /\ connected' = connected]_vars

\* a reset carried out with the second channel active
C35_Witness ==
    /\ last.op = "reset" /\ last.err = "" /\ connected
    /\ channel = "smub"
    /\ Len(last.calls) = 2
    /\ last.calls[2].cmd = CmdReset("smub")

(***************************************************************************)
(* C36: on an open emulator measureVoltage() succeeds and returns the      *)
(* commanded level of the active channel, whatever its output-enabled and  *)
(* compliance flags; directly after a successful setVoltage(x) it returns  *)
(* the x that was written.                                                 *)
(***************************************************************************)
C36_MeasureAnswersCommandedLevel ==
    [][(last'.op = "measure_voltage" /\ transport.is_open) =>
          /\ last'.err = ""
          /\ Len(last'.calls) = 1
          /\ last'.calls[1].resp = <<FormatNumber(transport.channels[channel].level_v)>>
          /\ last'.ret = Some(transport.channels[channel].level_v)
          /\ (last.op = "set_voltage" /\ last.err = "") =>
                last'.ret = Some(WrittenLevel(last.calls[1]))]_vars

\* a level was measured with the output off and the compliance flag raised
C36_Witness ==
    /\ last.op = "measure_voltage" /\ last.err = ""
    /\ last.ret = Some(MaxLevel)
    /\ ~transport.channels[channel].output_on
    /\ transport.channels[channel].compliance

(***************************************************************************)
(* The link between the controller and its transport: one controller, the  *)
(* only user of a transport that starts closed, the emulator or a hardware *)
(* session whose open and close may fail.                                  *)
(***************************************************************************)
InitLink ==
    /\ transport \in {SimulatedTransportInit, VisaTransportInit}
    /\ channel = "smua"
    /\ connected = FALSE
    /\ last = NoOp
    /\ everReset = {}
    /\ nops = 0

\* the next call on the hardware session, an open and a close included, fails
DeviceScriptLinkFailure ==
    /\ transport.kind = "visa"
    /\ transport.answers = NoAnswers /\ transport.fail_at = 0
    /\ transport' = [transport EXCEPT !.fail_at = 1]
    /\ last' = [NoOp EXCEPT !.op = "device"]
    /\ UNCHANGED <<channel, connected, everReset, nops>>

NextLink ==
    \/ Unmetered /\ Connect
    \/ Unmetered /\ Disconnect
    \/ Unmetered /\ Identify
    \/ Unmetered /\ Reset
    \/ Unmetered /\ \E c \in Channel : SelectChannel(c)
    \/ Unmetered /\ \E v \in Levels : SetVoltage(v)
    \/ Unmetered /\ \E b \in BOOLEAN : EnableOutput(b)
    \/ Unmetered /\ MeasureVoltage
    \/ Unmetered /\ DrainErrorQueue
    \/ DeviceScriptLinkFailure

SpecLink == InitLink /\ [][NextLink]_vars

(***************************************************************************)
(* C37: after any sequence of controller operations, failing ones          *)
(* included, the controller's connected flag equals the open flag of its   *)
(* transport (the emulator's flag, the hardware session being held); a     *)
(* connect whose open fails leaves the controller disconnected and a       *)
(* disconnect whose close fails leaves it connected.                       *)
(***************************************************************************)
\* the transport is open
IsOpen(t) == IF t.kind = "sim" THEN t.is_open ELSE t.resource

C37_ConnectedFollowsTransport ==
    [][/\ connected' = IsOpen(transport')
       /\ (last'.op = "connect" /\ last'.err # "") => (~connected' /\ ~connected)
       /\ (last'.op = "disconnect" /\ last'.err # "") => (connected' /\ connected)]_vars

\* a close has just failed on a connected controller
C37_Witness ==
    /\ last.op = "disconnect" /\ last.err = "TransportFailure"
    /\ connected /\ IsOpen(transport)

\* an operation has just failed on the emulator, which is closed like its controller
C37_WitnessEmulator ==
    /\ transport.kind = "sim" /\ ~transport.is_open /\ ~connected
    /\ last.op = "set_voltage" /\ last.err = "NotConnected"
    /\ everReset # {}

====
